---------------------------- MODULE Spec2Model ----------------------------
(***************************************************************************)
(* Family-activity backend: the three Google Places collectors             *)
(* (multi_city_smart_collector.py, simple_google_collector.py,             *)
(* google_places_enhanced.py), the SQLite store they write, and the        *)
(* GET /api/activities query of app.py.                                    *)
(*                                                                         *)
(* Conventions.  Python strings are TLA+ strings; `k in s` on strings is   *)
(* Contains(s, k), s.lower() is Lower(s).  Python lists are sequences.     *)
(* Ratings are floats with one decimal in the source and are kept here as  *)
(* tenths (4.4 is 44).  Python None / SQL NULL in a numeric column is the  *)
(* integer NULL.  Timestamps (created_at, updated_at) are left out of the  *)
(* rows: no filter, sort or key reads them.                                *)
(***************************************************************************)
EXTENDS Integers, Sequences, FiniteSets, TLC

VARIABLES
    activities,        \* table activities: sequence of rows, in rowid order
    venues,            \* table venues
    tags,              \* table tags
    activity_venues,   \* junction table activity_venues
    activity_tags,     \* junction table activity_tags
    lastOp,            \* the operation that produced this state, with its argument
    request,           \* query parameters of the last GET /api/activities
    response,          \* JSON body of the last HTTP response
    fn,                \* inputs and outputs of the last pure-function evaluation
    batch              \* control state of the running collection batch

store == <<activities, venues, tags, activity_venues, activity_tags>>
vars == <<activities, venues, tags, activity_venues, activity_tags,
          lastOp, request, response, fn, batch>>

NULL == -1

-----------------------------------------------------------------------------
(* Strings *)

LowerChar(c) ==
    CASE c = "A" -> "a" [] c = "B" -> "b" [] c = "C" -> "c" [] c = "D" -> "d"
      [] c = "E" -> "e" [] c = "F" -> "f" [] c = "G" -> "g" [] c = "H" -> "h"
      [] c = "I" -> "i" [] c = "J" -> "j" [] c = "K" -> "k" [] c = "L" -> "l"
      [] c = "M" -> "m" [] c = "N" -> "n" [] c = "O" -> "o" [] c = "P" -> "p"
      [] c = "Q" -> "q" [] c = "R" -> "r" [] c = "S" -> "s" [] c = "T" -> "t"
      [] c = "U" -> "u" [] c = "V" -> "v" [] c = "W" -> "w" [] c = "X" -> "x"
      [] c = "Y" -> "y" [] c = "Z" -> "z" [] OTHER -> c

\* s.lower(), halving the string.
RECURSIVE Lower(_)
Lower(s) ==
    IF Len(s) = 0 THEN ""
    ELSE IF Len(s) = 1 THEN LowerChar(s)
    ELSE LET h == Len(s) \div 2
         IN  Lower(SubSeq(s, 1, h)) \o Lower(SubSeq(s, h + 1, Len(s)))

\* Python `k in s` for strings: k occurs in s as a contiguous substring.
Contains(s, k) ==
    \E i \in 1..(Len(s) - Len(k) + 1) : SubSeq(s, i, i + Len(k) - 1) = k

\* any(k in s for k in ks)
ContainsAny(s, ks) == \E k \in ks : Contains(s, k)

\* Python `x in lst` for lists.
InList(x, lst) == \E i \in DOMAIN lst : lst[i] = x

\* any(t in lst for t in ts)
AnyIn(ts, lst) == \E t \in ts : InList(t, lst)

\* s[:n]
Prefix(s, n) == SubSeq(s, 1, IF Len(s) < n THEN Len(s) ELSE n)

Min(a, b) == IF a <= b THEN a ELSE b

\* list(set(lst)): every element once.  Python leaves the order of a set
\* unspecified; the model keeps first occurrences in list order.
RECURSIVE Dedup(_)
Dedup(lst) ==
    IF lst = <<>> THEN <<>>
    ELSE LET init == Dedup(SubSeq(lst, 1, Len(lst) - 1))
             last == lst[Len(lst)]
         IN  IF InList(last, init) THEN init ELSE Append(init, last)

NoDuplicates(lst) == \A i, j \in DOMAIN lst : lst[i] = lst[j] => i = j

\* f"{rating}" for a rating kept in tenths.
FormatRating(r) == ToString(r \div 10) \o "." \o ToString(r % 10)

-----------------------------------------------------------------------------
(* Raw places.  name_key says how the provider's JSON carries the name:    *)
(* "str" (a string), "absent" (no such key) or "null" (JSON null).         *)

\* place.get('name', default)
GetName(place, default) ==
    IF place.name_key = "absent" THEN default ELSE place.name

\* place.get('rating', default)
GetRating(place, default) ==
    IF place.rating = NULL THEN default ELSE place.rating

-----------------------------------------------------------------------------
(* MultiCitySmartCollector: pure functions *)

Multi_family_keywords ==
    {"children", "kids", "family", "playground", "park", "museum",
     "library", "aquarium", "zoo", "science", "discovery", "nature",
     "community", "recreation", "school", "learning", "educational",
     "theater", "cinema", "bowling", "ice cream", "pizza", "bakery",
     "swimming", "sports", "trail", "beach", "garden"}

Multi_family_types ==
    {"museum", "park", "library", "aquarium", "zoo", "amusement_park",
     "tourist_attraction", "point_of_interest", "establishment",
     "community_center", "movie_theater", "bowling_alley", "restaurant",
     "food", "store", "school", "campground"}

exclude_keywords ==
    {"bar", "pub", "nightclub", "casino", "dispensary",
     "adult", "lounge", "cocktail", "wine bar", "brewery"}

\* name = place.get('name', '').lower() raises AttributeError on a null name.
is_family_suitable_raises(place) == place.name_key = "null"

is_family_suitable(place) ==
    LET name == Lower(GetName(place, ""))
    IN  IF ContainsAny(name, exclude_keywords) THEN FALSE
        ELSE IF ContainsAny(name, Multi_family_keywords) THEN TRUE
        ELSE AnyIn(Multi_family_types, place.types)

Abs(x) == IF x < 0 THEN 0 - x ELSE x

\* Coordinates are kept in ten-thousandths of a degree; 0 stands for a
\* missing coordinate, as location.get('lat', 0) does.
is_in_city_area_raises(place) == place.name_key = "null"

is_in_city_area(place, target_city, coords) ==
    LET address == Lower(place.formatted_address)
    IN  IF Contains(address, Lower(target_city)) THEN TRUE
        ELSE IF place.lat # 0 /\ place.lng # 0
             THEN Abs(place.lat - coords.lat) < 1500
                  /\ Abs(place.lng - coords.lng) < 1500
             ELSE FALSE

duration_rules ==
    [quick  |-> [duration_minutes |-> 45, duration_category |-> "30-60 min",
                 time_slots |-> <<"morning", "afternoon", "evening">>,
                 indicators |-> {"ice cream", "cafe", "quick", "snack", "treat", "bakery"}],
     short  |-> [duration_minutes |-> 90, duration_category |-> "1-2 hrs",
                 time_slots |-> <<"morning", "afternoon">>,
                 indicators |-> {"bowling", "movie", "small museum", "library", "playground"}],
     medium |-> [duration_minutes |-> 180, duration_category |-> "2-4 hrs",
                 time_slots |-> <<"morning", "afternoon">>,
                 indicators |-> {"museum", "zoo", "aquarium", "park", "trail", "shopping", "beach"}],
     long   |-> [duration_minutes |-> 300, duration_category |-> "4+ hrs",
                 time_slots |-> <<"morning">>,
                 indicators |-> {"amusement park", "large park", "campus", "hiking", "all day"}]]

\* A duration estimate by place type alone that takes every park for an
\* all-day destination.
calculate_smart_duration_ParksAllDay(place_types, name, activity_type) ==
    IF AnyIn({"restaurant", "food", "meal_takeaway"}, place_types) THEN duration_rules.quick
    ELSE IF AnyIn({"movie_theater", "bowling_alley"}, place_types) THEN duration_rules.short
    ELSE IF AnyIn({"museum", "aquarium", "zoo"}, place_types) THEN duration_rules.medium
    ELSE IF AnyIn({"amusement_park", "campground", "park"}, place_types) THEN duration_rules.long
    ELSE IF activity_type = "dining" THEN duration_rules.quick
    ELSE IF activity_type \in {"educational", "outdoor"} THEN duration_rules.medium
    ELSE duration_rules.short

calculate_smart_duration(place_types, name, activity_type) ==
    LET name_lower == Lower(name)
    IN  \* specific duration indicators in the name, rule by rule
        IF ContainsAny(name_lower, duration_rules.quick.indicators) THEN duration_rules.quick
        ELSE IF ContainsAny(name_lower, duration_rules.short.indicators) THEN duration_rules.short
        ELSE IF ContainsAny(name_lower, duration_rules.medium.indicators) THEN duration_rules.medium
        ELSE IF ContainsAny(name_lower, duration_rules.long.indicators) THEN duration_rules.long
        \* by place type
        ELSE IF AnyIn({"restaurant", "food", "meal_takeaway"}, place_types) THEN duration_rules.quick
        ELSE IF AnyIn({"movie_theater", "bowling_alley"}, place_types) THEN duration_rules.short
        ELSE IF AnyIn({"museum", "aquarium", "zoo"}, place_types) THEN duration_rules.medium
        ELSE IF AnyIn({"amusement_park", "campground"}, place_types) THEN duration_rules.long
        ELSE IF InList("park", place_types)
             THEN IF ContainsAny(name_lower, {"regional", "state", "national", "large"})
                  THEN duration_rules.long
                  ELSE duration_rules.medium
        \* default by activity type
        ELSE IF activity_type = "dining" THEN duration_rules.quick
        ELSE IF activity_type = "educational" THEN duration_rules.medium
        ELSE IF activity_type = "outdoor" THEN duration_rules.medium
        ELSE duration_rules.short

\* A classifier that names the amusement rule's result "entertainment".
Multi_determine_activity_type_Entertainment(place_types, name) ==
    IF AnyIn({"museum", "library", "university", "school"}, place_types) THEN "educational"
    ELSE IF AnyIn({"park", "campground"}, place_types) THEN "outdoor"
    ELSE IF AnyIn({"restaurant", "food", "meal_takeaway"}, place_types) THEN "dining"
    ELSE IF AnyIn({"amusement_park", "bowling_alley", "movie_theater"}, place_types)
    THEN "entertainment"
    ELSE "recreational"

Multi_determine_activity_type(place_types, name) ==
    IF AnyIn({"museum", "library", "university", "school"}, place_types) THEN "educational"
    ELSE IF AnyIn({"park", "campground"}, place_types) THEN "outdoor"
    ELSE IF AnyIn({"restaurant", "food", "meal_takeaway"}, place_types) THEN "dining"
    ELSE IF AnyIn({"amusement_park", "bowling_alley", "movie_theater"}, place_types) THEN "recreational"
    ELSE "recreational"

Multi_estimate_cost(place_types, name) ==
    LET name_lower == Lower(name)
    IN  IF AnyIn({"park", "library"}, place_types)
           \/ ContainsAny(name_lower, {"park", "library", "free", "trail"})
        THEN [category |-> "free", min_price |-> 0, max_price |-> 0]
        ELSE IF ContainsAny(name_lower, {"ice cream", "cafe", "fast food"})
        THEN [category |-> "low", min_price |-> 5, max_price |-> 15]
        ELSE IF AnyIn({"museum", "movie_theater", "bowling_alley"}, place_types)
        THEN [category |-> "medium", min_price |-> 15, max_price |-> 35]
        ELSE IF ContainsAny(name_lower, {"amusement", "theme park"})
        THEN [category |-> "high", min_price |-> 35, max_price |-> 80]
        ELSE [category |-> "low", min_price |-> 5, max_price |-> 25]

Multi_generate_comprehensive_tags(place_types, name, activity_type, duration_info) ==
    LET name_lower == Lower(name)
        duration_category == duration_info.duration_category
        time_slots == duration_info.time_slots
        t1 == IF Contains(duration_category, "30-60 min") THEN <<"quick_visit", "short_activity">>
              ELSE IF Contains(duration_category, "1-2 hrs") THEN <<"short_visit", "half_day">>
              ELSE IF Contains(duration_category, "2-4 hrs") THEN <<"longer_visit", "half_day">>
              ELSE IF Contains(duration_category, "4+") THEN <<"full_day", "all_day">>
              ELSE <<>>
        t2 == (IF InList("morning", time_slots) THEN <<"morning_activity">> ELSE <<>>)
              \o (IF InList("afternoon", time_slots) THEN <<"afternoon_activity">> ELSE <<>>)
              \o (IF InList("evening", time_slots) THEN <<"evening_activity">> ELSE <<>>)
        t3 == IF activity_type = "educational" THEN <<"learning", "educational", "indoor">>
              ELSE IF activity_type = "outdoor" THEN <<"outdoor", "nature", "fresh_air">>
              ELSE IF activity_type = "recreational" THEN <<"fun", "entertainment">>
              ELSE IF activity_type = "dining" THEN <<"food", "treats", "indoor">>
              ELSE <<>>
        t4 == (IF AnyIn({"museum", "library", "movie_theater", "bowling_alley", "restaurant"}, place_types)
               THEN <<"rainy_day">> ELSE <<>>)
              \o (IF AnyIn({"park", "beach", "trail"}, place_types)
                  THEN <<"sunny_day", "good_weather">> ELSE <<>>)
        t5 == (IF ContainsAny(name_lower, {"children", "kids", "toddler"})
               THEN <<"kid_focused">> ELSE <<>>)
              \o (IF Contains(name_lower, "playground")
                  THEN <<"playground", "active_play">> ELSE <<>>)
    IN  Dedup(t1 \o t2 \o t3 \o t4 \o t5 \o <<"family_friendly">>)

\* activity_descriptions, keyed by place type.
Multi_activity_descriptions(name, city_name) ==
    [museum     |-> "Discover fascinating exhibits and interactive displays at " \o name \o " in " \o city_name \o ".",
     park       |-> "Enjoy outdoor fun and beautiful surroundings at " \o name \o " in " \o city_name \o ".",
     restaurant |-> "Family-friendly dining experience at " \o name \o " in " \o city_name \o ".",
     library    |-> "Educational programs and activities at " \o name \o " in " \o city_name \o "."]

\* for x in lst: if x in keys: return x  -- the first element of lst in keys,
\* "" when there is none.
RECURSIVE FirstIn(_, _)
FirstIn(lst, keys) ==
    IF lst = <<>> THEN ""
    ELSE IF Head(lst) \in keys THEN Head(lst)
    ELSE FirstIn(Tail(lst), keys)

Multi_generate_description(name, place_types, city_name) ==
    LET table == Multi_activity_descriptions(name, city_name)
        hit == FirstIn(place_types, DOMAIN table)
    IN  IF hit # "" THEN table[hit]
        ELSE "Family-friendly destination at " \o name \o " in " \o city_name
             \o ". Perfect for creating memories together."

\* The result of enhance_place_with_duration when it returns None.
None == [is_none |-> TRUE]

\* name.lower() inside the try block raises on a null name; the except
\* clause turns that into None.
enhance_place_with_duration(place, city_name) ==
    IF place.name_key = "null" THEN None
    ELSE
    LET name == GetName(place, "Unknown Place")
        rating == GetRating(place, 40)
        activity_type == Multi_determine_activity_type(place.types, name)
        duration_info == calculate_smart_duration(place.types, name, activity_type)
        cost_info == Multi_estimate_cost(place.types, name)
    IN  [is_none |-> FALSE,
         source |-> "google_places_multi_city",
         name_is_null |-> FALSE,
         is_open_now |-> NULL,
         name |-> name,
         description |-> Multi_generate_description(name, place.types, city_name),
         activity_type |-> activity_type,
         min_age |-> NULL,
         max_age |-> NULL,
         rating |-> Min(rating, 50),
         address |-> place.formatted_address,
         city |-> city_name,
         place_id |-> place.place_id,
         cost_category |-> cost_info.category,
         price_min |-> cost_info.min_price,
         price_max |-> cost_info.max_price,
         duration_minutes |-> duration_info.duration_minutes,
         tags |-> Multi_generate_comprehensive_tags(place.types, name, activity_type, duration_info),
         popularity_score |-> Min(place.user_ratings_total, 100)]

-----------------------------------------------------------------------------
(* SimpleGooglePlacesCollector: pure functions *)

Simple_family_keywords ==
    {"children", "kids", "family", "playground", "park", "museum",
     "library", "aquarium", "zoo", "science", "discovery", "nature"}

Simple_family_types ==
    {"museum", "park", "library", "aquarium", "zoo", "amusement_park",
     "tourist_attraction", "point_of_interest"}

is_family_friendly_raises(place) == place.name_key = "null"

\* No exclude list here: the name keywords, then the types.
is_family_friendly(place) ==
    LET name == Lower(GetName(place, ""))
    IN  IF ContainsAny(name, Simple_family_keywords) THEN TRUE
        ELSE AnyIn(Simple_family_types, place.types)

Simple_determine_activity_type(place_types, name) ==
    LET name_lower == Lower(name)
    IN  IF AnyIn({"museum", "library"}, place_types) THEN "educational"
        ELSE IF AnyIn({"park", "playground"}, place_types) \/ Contains(name_lower, "park")
        THEN "outdoor"
        ELSE IF AnyIn({"aquarium", "zoo"}, place_types) THEN "educational"
        ELSE IF Contains(name_lower, "amusement") \/ Contains(name_lower, "fun")
        THEN "recreational"
        ELSE "recreational"

Simple_estimate_cost(place_types, name) ==
    LET name_lower == Lower(name)
    IN  IF AnyIn({"park", "library"}, place_types)
           \/ Contains(name_lower, "park") \/ Contains(name_lower, "library")
        THEN [category |-> "free", min_price |-> 0, max_price |-> 0]
        ELSE IF AnyIn({"museum", "aquarium", "zoo"}, place_types)
        THEN [category |-> "medium", min_price |-> 15, max_price |-> 25]
        ELSE [category |-> "low", min_price |-> 5, max_price |-> 15]

generate_tags(place_types, name) ==
    LET name_lower == Lower(name)
        t1 == IF InList("museum", place_types)
              THEN <<"indoor", "educational", "rainy_day">> ELSE <<>>
        t2 == IF InList("park", place_types) \/ Contains(name_lower, "park")
              THEN <<"outdoor", "nature", "playground">> ELSE <<>>
        t3 == IF InList("library", place_types) \/ Contains(name_lower, "library")
              THEN <<"indoor", "educational", "free", "reading">> ELSE <<>>
        t4 == IF AnyIn({"aquarium", "zoo"}, place_types)
              THEN <<"animals", "educational">> ELSE <<>>
        t5 == IF ContainsAny(name_lower, {"children", "kids"})
              THEN <<"kid_focused">> ELSE <<>>
    IN  Dedup(t1 \o t2 \o t3 \o t4 \o <<"family_friendly">> \o t5)

\* address.split(', ')
RECURSIVE Split(_, _)
Split(s, acc) ==
    IF Len(s) = 0 THEN <<acc>>
    ELSE IF Len(s) >= 2 /\ SubSeq(s, 1, 2) = ", "
         THEN <<acc>> \o Split(SubSeq(s, 3, Len(s)), "")
         ELSE Split(SubSeq(s, 2, Len(s)), acc \o SubSeq(s, 1, 1))

known_cities == <<"Berkeley", "San Francisco", "Oakland", "San Jose", "Sausalito">>

extract_city(address) ==
    IF address = "" THEN "Unknown"
    ELSE IF \E i \in DOMAIN known_cities : Contains(address, known_cities[i])
    THEN LET i == CHOOSE k \in DOMAIN known_cities :
                      /\ Contains(address, known_cities[k])
                      /\ \A j \in 1..(k - 1) : ~Contains(address, known_cities[j])
         IN  known_cities[i]
    ELSE LET parts == Split(address, "")
         IN  IF Len(parts) >= 2
             THEN IF Len(parts) > 2 THEN parts[Len(parts) - 2] ELSE parts[Len(parts) - 1]
             ELSE "Bay Area"

Simple_descriptions ==
    [museum   |-> "Explore fascinating exhibits and interactive displays.",
     park     |-> "Enjoy outdoor activities and beautiful natural surroundings.",
     library  |-> "Discover books, programs, and educational activities.",
     aquarium |-> "Marvel at marine life and underwater worlds.",
     zoo      |-> "Meet amazing animals from around the world."]

Simple_generate_description(name, place_types) ==
    LET hit == FirstIn(place_types, DOMAIN Simple_descriptions)
    IN  IF hit # "" THEN Simple_descriptions[hit]
        ELSE "A wonderful family destination with activities for all ages."

\* determine_activity_type calls name.lower(): a null name raises inside
\* the try block and enhance_place_data returns None.
enhance_place_data(place) ==
    IF place.name_key = "null" THEN None
    ELSE
    LET name == GetName(place, "Unknown Place")
        activity_type == Simple_determine_activity_type(place.types, name)
        cost_info == Simple_estimate_cost(place.types, name)
        city == extract_city(place.formatted_address)
    IN  [is_none |-> FALSE,
         source |-> "google_places",
         name_is_null |-> FALSE,
         is_open_now |-> NULL,
         name |-> name,
         description |-> "Family-friendly " \o activity_type \o " venue in " \o city \o ". "
                         \o Simple_generate_description(name, place.types),
         activity_type |-> activity_type,
         min_age |-> NULL,
         max_age |-> NULL,
         rating |-> GetRating(place, 40),
         address |-> place.formatted_address,
         city |-> city,
         place_id |-> place.place_id,
         cost_category |-> cost_info.category,
         price_min |-> cost_info.min_price,
         price_max |-> cost_info.max_price,
         duration_minutes |-> NULL,
         tags |-> generate_tags(place.types, name),
         popularity_score |-> NULL]

-----------------------------------------------------------------------------
(* EnhancedGooglePlacesCollector: pure functions *)

\* family_place_types: the age_info of each searched place type.
family_place_types ==
    [amusement_park     |-> [min_age |-> 3, max_age |-> 18, activity_type |-> "recreational"],
     aquarium           |-> [min_age |-> 2, max_age |-> 18, activity_type |-> "educational"],
     art_gallery        |-> [min_age |-> 5, max_age |-> 18, activity_type |-> "educational"],
     bowling_alley      |-> [min_age |-> 4, max_age |-> 18, activity_type |-> "recreational"],
     campground         |-> [min_age |-> 0, max_age |-> 18, activity_type |-> "outdoor"],
     library            |-> [min_age |-> 0, max_age |-> 18, activity_type |-> "educational"],
     museum             |-> [min_age |-> 3, max_age |-> 18, activity_type |-> "educational"],
     park               |-> [min_age |-> 0, max_age |-> 18, activity_type |-> "outdoor"],
     tourist_attraction |-> [min_age |-> 2, max_age |-> 18, activity_type |-> "recreational"],
     zoo                |-> [min_age |-> 1, max_age |-> 18, activity_type |-> "educational"]]

determine_age_from_keyword(keyword) ==
    LET keyword_lower == Lower(keyword)
    IN  IF Contains(keyword_lower, "toddler") \/ Contains(keyword_lower, "baby")
        THEN [activity_type |-> "educational", min_age |-> 0, max_age |-> 3]
        ELSE IF Contains(keyword_lower, "children") \/ Contains(keyword_lower, "kids")
        THEN [activity_type |-> "recreational", min_age |-> 3, max_age |-> 12]
        ELSE IF Contains(keyword_lower, "family")
        THEN [activity_type |-> "recreational", min_age |-> 0, max_age |-> 18]
        ELSE [activity_type |-> "recreational", min_age |-> 3, max_age |-> 12]

\* The mutated form of free_types: 'park' is missing.
free_types_NoPark == {"library", "playground"}

free_types == {"park", "library", "playground"}

\* A category without prices ({'category': 'unknown'}) has min_price and
\* max_price NULL, which is what price_info.get('min_price') reads.
determine_pricing(price_level, types) ==
    IF price_level = NULL
    THEN IF AnyIn(free_types, types)
         THEN [category |-> "free", min_price |-> 0, max_price |-> 0]
         ELSE [category |-> "unknown", min_price |-> NULL, max_price |-> NULL]
    ELSE CASE price_level = 0 -> [category |-> "free", min_price |-> 0, max_price |-> 0]
           [] price_level = 1 -> [category |-> "low", min_price |-> 5, max_price |-> 15]
           [] price_level = 2 -> [category |-> "medium", min_price |-> 15, max_price |-> 30]
           [] price_level = 3 -> [category |-> "high", min_price |-> 30, max_price |-> 60]
           [] price_level = 4 -> [category |-> "very_high", min_price |-> 60, max_price |-> 100]
           [] OTHER -> [category |-> "unknown", min_price |-> NULL, max_price |-> NULL]

type_tag_mapping ==
    [amusement_park |-> <<"fun", "rides", "exciting">>,
     aquarium       |-> <<"marine_life", "educational", "animals">>,
     art_gallery    |-> <<"art", "culture", "creative">>,
     bowling_alley  |-> <<"sports", "indoor", "social">>,
     library        |-> <<"reading", "educational", "quiet", "free">>,
     museum         |-> <<"educational", "interactive", "learning">>,
     park           |-> <<"outdoor", "nature", "playground", "free">>,
     zoo            |-> <<"animals", "educational", "outdoor">>]

\* for place_type in place_types: tags.extend(type_tag_mapping[place_type])
RECURSIVE TypeTags(_)
TypeTags(place_types) ==
    IF place_types = <<>> THEN <<>>
    ELSE (IF Head(place_types) \in DOMAIN type_tag_mapping
          THEN type_tag_mapping[Head(place_types)] ELSE <<>>)
         \o TypeTags(Tail(place_types))

Enhanced_generate_comprehensive_tags(place, age_info) ==
    LET rating == GetRating(place, 0)
        t1 == <<age_info.activity_type>>
        t2 == TypeTags(place.types)
        t3 == (IF age_info.min_age <= 2 THEN <<"toddler_friendly">> ELSE <<>>)
              \o (IF age_info.min_age <= 5 THEN <<"preschool_friendly">> ELSE <<>>)
              \o (IF age_info.max_age >= 12 THEN <<"school_age_friendly">> ELSE <<>>)
              \o (IF age_info.max_age >= 16 THEN <<"teen_friendly">> ELSE <<>>)
        t4 == IF place.wheelchair THEN <<"wheelchair_accessible">> ELSE <<>>
        t5 == (IF rating >= 45 THEN <<"highly_rated">> ELSE <<>>)
              \o (IF place.user_ratings_total > 100 THEN <<"popular">> ELSE <<>>)
        t6 == IF place.open_now = 1 THEN <<"open_now">> ELSE <<>>
    IN  Dedup(t1 \o t2 \o t3 \o t4 \o t5 \o t6)

type_descriptions ==
    [amusement_park |-> "Fun-filled amusement park with rides and attractions for the whole family.",
     aquarium       |-> "Explore marine life and underwater worlds in this family-friendly aquarium.",
     museum         |-> "Educational and engaging museum experience perfect for curious minds.",
     park           |-> "Beautiful outdoor space perfect for family activities and recreation.",
     zoo            |-> "Meet amazing animals from around the world in this family-friendly zoo.",
     library        |-> "Community hub offering books, programs, and activities for all ages."]

\* ' '.join(parts)
RECURSIVE Join(_)
Join(parts) ==
    IF parts = <<>> THEN ""
    ELSE IF Len(parts) = 1 THEN parts[1]
    ELSE parts[1] \o " " \o Join(Tail(parts))

\* The description without its last resort: the joined parts as they are.
generate_rich_description_NoFallback(place) ==
    LET rating == GetRating(place, 0)
        hit == FirstIn(place.types, DOMAIN type_descriptions)
        p1 == IF place.editorial_summary # "" THEN <<place.editorial_summary>>
              ELSE IF hit # "" THEN <<type_descriptions[hit]>>
              ELSE <<>>
        p2 == IF rating > 0 /\ place.user_ratings_total > 0
              THEN <<"Highly rated by families with " \o FormatRating(rating)
                     \o "/5 stars from " \o ToString(place.user_ratings_total) \o " reviews.">>
              ELSE <<>>
    IN  Join(p1 \o p2)

generate_rich_description(place) ==
    LET name == IF place.name_key = "null" THEN "None" ELSE GetName(place, "")
        rating == GetRating(place, 0)
        hit == FirstIn(place.types, DOMAIN type_descriptions)
        p1 == IF place.editorial_summary # "" THEN <<place.editorial_summary>>
              ELSE IF hit # "" THEN <<type_descriptions[hit]>>
              ELSE <<>>
        p2 == IF rating > 0 /\ place.user_ratings_total > 0
              THEN <<"Highly rated by families with " \o FormatRating(rating)
                     \o "/5 stars from " \o ToString(place.user_ratings_total) \o " reviews.">>
              ELSE <<>>
        joined == Join(p1 \o p2)
    IN  IF joined # "" THEN joined
        ELSE "Family-friendly destination at " \o name \o "."

\* The activity_data that process_enhanced_place hands to
\* save_enhanced_activity.
process_enhanced_place_data(place, city, age_info) ==
    LET name == GetName(place, "Unknown Place")
        price_info == determine_pricing(place.price_level, place.types)
    IN  [is_none |-> FALSE,
         source |-> "google_places_enhanced",
         name_is_null |-> place.name_key = "null",
         is_open_now |-> place.open_now,
         name |-> name,
         description |-> generate_rich_description(place),
         activity_type |-> age_info.activity_type,
         min_age |-> age_info.min_age,
         max_age |-> age_info.max_age,
         rating |-> GetRating(place, 0),
         address |-> place.formatted_address,
         city |-> city,
         place_id |-> place.place_id,
         cost_category |-> price_info.category,
         price_min |-> price_info.min_price,
         price_max |-> price_info.max_price,
         duration_minutes |-> NULL,
         tags |-> Enhanced_generate_comprehensive_tags(place, age_info),
         popularity_score |-> NULL]

-----------------------------------------------------------------------------
(* The raw places the provider is taken to return.                         *)

RawPlace(name_key, name, types, rating, price_level, address) ==
    [name_key |-> name_key, name |-> name, types |-> types, rating |-> rating,
     user_ratings_total |-> IF rating = NULL THEN 0 ELSE 5 * rating,
     formatted_address |-> address,
     place_id |-> "pid:" \o name,
     price_level |-> price_level,
     editorial_summary |-> "",
     wheelchair |-> FALSE,
     open_now |-> NULL,
     lat |-> 0, lng |-> 0]

PlaceNames ==
    {"Joe's Nightclub Bar", "Family Pub", "Golden Gate Park", "Tilden Regional Park",
     "Kids Discovery Museum", "Berkeley Public Library", "Oakland Zoo",
     "Park Cafe", "Fun Bowling", "Acme", ""}

PlaceTypeLists ==
    {<<>>, <<"bar">>, <<"bar", "point_of_interest", "establishment">>,
     <<"park">>, <<"tourist_attraction", "park", "point_of_interest">>,
     <<"museum", "point_of_interest">>, <<"library", "museum", "library">>,
     <<"restaurant", "food">>, <<"amusement_park">>, <<"zoo", "park">>}

PlaceRatings == {NULL, 38, 48}

PriceLevels == {NULL, 0, 2, 4}

\* The place of the end-to-end scenario.
GoldenGatePark ==
    RawPlace("str", "Golden Gate Park", <<"park">>, 44, NULL,
             "Golden Gate Park, San Francisco, CA")

\* Every combination of name, types, rating and price level, and for each
\* types list a place without a name key and a place whose name is null.
EnrichPlaces ==
    {RawPlace("str", n, t, r, pl, "1 Main St, Berkeley, CA") :
        n \in PlaceNames, t \in PlaceTypeLists, r \in PlaceRatings, pl \in PriceLevels}
    \cup {RawPlace(k, "", t, 44, NULL, "1 Main St, Berkeley, CA") :
        k \in {"absent", "null"}, t \in PlaceTypeLists}
    \cup {[RawPlace("str", n, t, r, NULL, "1 Main St, Berkeley, CA")
              EXCEPT !.editorial_summary = "Hands-on exhibits for children."] :
        n \in {"Kids Discovery Museum", ""},
        t \in {<<>>, <<"museum", "point_of_interest">>}, r \in {NULL, 48}}
    \cup {GoldenGatePark}

EnrichCities == {"Berkeley", "San Francisco"}

\* The age_info of a type search and of a keyword search.
AgeInfos ==
    {family_place_types.park, family_place_types.museum,
     determine_age_from_keyword("children playground")}

-----------------------------------------------------------------------------
(* app.py, get_activities: the display-bucket formatter *)

\* The mutated form of format_duration: the labels of the third and fourth
\* bucket are exchanged.
format_duration_Swapped(stored) ==
    LET duration_minutes == IF stored = NULL \/ stored = 0 THEN 120 ELSE stored
    IN  IF duration_minutes <= 45
        THEN [duration |-> "30-45 min", duration_minutes |-> duration_minutes, duration_category |-> "quick"]
        ELSE IF duration_minutes <= 90
        THEN [duration |-> "1-1.5 hrs", duration_minutes |-> duration_minutes, duration_category |-> "short"]
        ELSE IF duration_minutes <= 180
        THEN [duration |-> "4-5 hrs", duration_minutes |-> duration_minutes, duration_category |-> "long"]
        ELSE IF duration_minutes <= 300
        THEN [duration |-> "2-3 hrs", duration_minutes |-> duration_minutes, duration_category |-> "medium"]
        ELSE [duration |-> "All day", duration_minutes |-> duration_minutes, duration_category |-> "full_day"]

\* duration_minutes = row['duration_minutes'] or 120: NULL and 0 both read
\* as 120.
format_duration(stored) ==
    LET duration_minutes == IF stored = NULL \/ stored = 0 THEN 120 ELSE stored
    IN  IF duration_minutes <= 45
        THEN [duration |-> "30-45 min", duration_minutes |-> duration_minutes, duration_category |-> "quick"]
        ELSE IF duration_minutes <= 90
        THEN [duration |-> "1-1.5 hrs", duration_minutes |-> duration_minutes, duration_category |-> "short"]
        ELSE IF duration_minutes <= 180
        THEN [duration |-> "2-3 hrs", duration_minutes |-> duration_minutes, duration_category |-> "medium"]
        ELSE IF duration_minutes <= 300
        THEN [duration |-> "4-5 hrs", duration_minutes |-> duration_minutes, duration_category |-> "long"]
        ELSE [duration |-> "All day", duration_minutes |-> duration_minutes, duration_category |-> "full_day"]

-----------------------------------------------------------------------------
(* The store: the tables of create_tables and the statements run on them.  *)
(* A table is the sequence of its rows in rowid order.  A database value   *)
(* db is a record of the five tables.                                      *)

\* UNIQUE constraints of create_tables, each a set of column names.  The
\* tables activities and venues declare none besides the primary key id.
\* An activities table that declared UNIQUE(title).
activities_unique_ByTitle == {{"title"}}

activities_unique == {}

\* A venues table that declared UNIQUE(name).
venues_unique_ByName == {{"name"}}

venues_unique == {}

tags_unique == {{"name"}}

activity_venues_unique == {{"activity_id", "venue_id"}}

activity_tags_unique == {{"activity_id", "tag_id"}}

\* INTEGER PRIMARY KEY AUTOINCREMENT: one more than the largest id given
\* out.  No statement of the program deletes a row of a table without a
\* UNIQUE key, and tags and junction rows are never replaced, so this is
\* one more than the largest id present.
NextId(table) ==
    IF table = <<>> THEN 1
    ELSE 1 + (CHOOSE m \in {table[i].id : i \in DOMAIN table} :
                \A i \in DOMAIN table : table[i].id <= m)

\* row collides with r on one of the UNIQUE keys.
RowConflicts(r, row, keys) == \E k \in keys : \A c \in k : r[c] = row[c]

HasConflict(table, row, keys) ==
    \E i \in DOMAIN table : RowConflicts(table[i], row, keys)

\* INSERT OR REPLACE: the rows that collide with the new row are deleted,
\* then the row is inserted.
InsertOrReplace(table, row, keys) ==
    Append(SelectSeq(table, LAMBDA r : ~RowConflicts(r, row, keys)), row)

\* A plain append, whatever rows the table holds.
InsertOrIgnore_Always(table, row, keys) == Append(table, row)

\* INSERT OR IGNORE: a row that collides is not inserted.
InsertOrIgnore(table, row, keys) ==
    IF HasConflict(table, row, keys) THEN table ELSE Append(table, row)

\* A tag loop without the SELECT: every tag name gets a new tags row.
RECURSIVE SaveTags_AlwaysCreate(_, _, _)
SaveTags_AlwaysCreate(db, activity_id, tag_list) ==
    IF tag_list = <<>> THEN db
    ELSE
    LET tag_id == NextId(db.tags)
        link == [id |-> NextId(db.activity_tags),
                 activity_id |-> activity_id, tag_id |-> tag_id]
        db1 == [db EXCEPT !.tags = Append(db.tags, [id |-> tag_id, name |-> Head(tag_list)]),
                          !.activity_tags =
                              InsertOrIgnore(db.activity_tags, link, activity_tags_unique)]
    IN  SaveTags_AlwaysCreate(db1, activity_id, Tail(tag_list))

\* for tag_name in tags: SELECT id FROM tags WHERE name = ?; INSERT INTO
\* tags when there is none; INSERT OR IGNORE INTO activity_tags.
RECURSIVE SaveTags(_, _, _)
SaveTags(db, activity_id, tag_list) ==
    IF tag_list = <<>> THEN db
    ELSE
    LET tag_name == Head(tag_list)
        found == {i \in DOMAIN db.tags : db.tags[i].name = tag_name}
        tag_id == IF found # {} THEN db.tags[CHOOSE i \in found : TRUE].id
                  ELSE NextId(db.tags)
        tags1 == IF found # {} THEN db.tags
                 ELSE Append(db.tags, [id |-> tag_id, name |-> tag_name])
        link == [id |-> NextId(db.activity_tags),
                 activity_id |-> activity_id, tag_id |-> tag_id]
        db1 == [db EXCEPT !.tags = tags1,
                          !.activity_tags =
                              InsertOrIgnore(db.activity_tags, link, activity_tags_unique)]
    IN  SaveTags(db1, activity_id, Tail(tag_list))

\* The statements the three save functions share: INSERT OR REPLACE INTO
\* activities, cursor.lastrowid, INSERT OR REPLACE INTO venues,
\* cursor.lastrowid, INSERT OR IGNORE INTO activity_venues, the tag loop.
\* arow and vrow are the rows without their ids.
SaveRows(db, arow, vrow, tag_list) ==
    LET activity_id == NextId(db.activities)
        venue_id == NextId(db.venues)
        a == [arow EXCEPT !.id = activity_id]
        v == [vrow EXCEPT !.id = venue_id]
        link == [id |-> NextId(db.activity_venues),
                 activity_id |-> activity_id, venue_id |-> venue_id]
        db1 == [db EXCEPT
                  !.activities = InsertOrReplace(db.activities, a, activities_unique),
                  !.venues = InsertOrReplace(db.venues, v, venues_unique),
                  !.activity_venues =
                      InsertOrIgnore(db.activity_venues, link, activity_venues_unique)]
    IN  SaveTags(db1, activity_id, tag_list)

\* The venues row all three collectors insert; is_open_now has DEFAULT 1.
VenueRow(place_data) ==
    [id |-> 0,
     name |-> place_data.name,
     venue_type |-> place_data.activity_type,
     address |-> place_data.address,
     city |-> place_data.city,
     google_place_id |-> place_data.place_id,
     rating |-> place_data.rating,
     is_open_now |-> 1]

\* The activities row MultiCitySmartCollector.save_place_to_db inserts.
Multi_activity_row(place_data) ==
    [id |-> 0,
     title |-> place_data.name,
     description |-> place_data.description,
     activity_type |-> place_data.activity_type,
     min_age |-> NULL,
     max_age |-> NULL,
     duration_minutes |-> place_data.duration_minutes,
     cost_category |-> place_data.cost_category,
     price_min |-> place_data.price_min,
     price_max |-> place_data.price_max,
     rating |-> place_data.rating,
     popularity_score |-> place_data.popularity_score,
     is_active |-> 1]

\* MultiCitySmartCollector.save_place_to_db.  min_age and max_age are not
\* in the column list and stay NULL.  db_error is a statement failing
\* (sqlite3 raising): the except clause rolls the transaction back.
Multi_save_place_to_db(db, place_data, db_error) ==
    IF db_error THEN db
    ELSE SaveRows(db,
                  Multi_activity_row(place_data),
                  VenueRow(place_data),
                  place_data.tags)

\* The activities row SimpleGooglePlacesCollector.save_place_to_db inserts.
Simple_activity_row(place_data) ==
    [id |-> 0,
     title |-> place_data.name,
     description |-> place_data.description,
     activity_type |-> place_data.activity_type,
     min_age |-> NULL,
     max_age |-> NULL,
     duration_minutes |-> 120,
     cost_category |-> place_data.cost_category,
     price_min |-> place_data.price_min,
     price_max |-> place_data.price_max,
     rating |-> place_data.rating,
     popularity_score |-> 0,
     is_active |-> 1]

\* SimpleGooglePlacesCollector.save_place_to_db.  duration_minutes and
\* popularity_score are not in the column list and take their DEFAULTs,
\* 120 and 0.
Simple_save_place_to_db(db, place_data, db_error) ==
    IF db_error THEN db
    ELSE SaveRows(db,
                  Simple_activity_row(place_data),
                  VenueRow(place_data),
                  place_data.tags)

\* The activities row save_enhanced_activity inserts.
Enhanced_activity_row(activity_data) ==
    [id |-> 0,
     title |-> activity_data.name,
     description |-> activity_data.description,
     activity_type |-> activity_data.activity_type,
     min_age |-> activity_data.min_age,
     max_age |-> activity_data.max_age,
     duration_minutes |-> 120,
     cost_category |-> activity_data.cost_category,
     price_min |-> activity_data.price_min,
     price_max |-> activity_data.price_max,
     rating |-> activity_data.rating,
     popularity_score |-> 0,
     is_active |-> 1]

\* EnhancedGooglePlacesCollector.save_enhanced_activity.  A null title
\* violates NOT NULL on activities.title; that and any other failing
\* statement roll the transaction back.  When the place carries opening
\* hours, the venue's is_open_now is updated to the place's open_now.
save_enhanced_activity(db, activity_data, db_error) ==
    IF db_error \/ activity_data.name_is_null THEN db
    ELSE
    LET db1 == SaveRows(db,
                  Enhanced_activity_row(activity_data),
                  VenueRow(activity_data),
                  activity_data.tags)
        venue_id == NextId(db.venues)
    IN  IF activity_data.is_open_now = NULL THEN db1
        ELSE [db1 EXCEPT !.venues =
                  [i \in DOMAIN db1.venues |->
                      IF db1.venues[i].id = venue_id
                      THEN [db1.venues[i] EXCEPT !.is_open_now = activity_data.is_open_now]
                      ELSE db1.venues[i]]]

\* MultiCitySmartCollector.is_duplicate: SELECT COUNT(*) FROM activities
\* WHERE title = ? OR (title LIKE '%name[:10]%' AND title LIKE '%city%').
\* LikeMatch(s, p) is SQLite's s LIKE p: % matches any run of characters,
\* _ any one character, letters match without regard to case.
RECURSIVE LikeMatch(_, _)
LikeMatch(s, p) ==
    IF Len(p) = 0 THEN Len(s) = 0
    ELSE LET c == SubSeq(p, 1, 1)
             rest == SubSeq(p, 2, Len(p))
         IN  IF c = "%"
             THEN \E k \in 0..Len(s) : LikeMatch(SubSeq(s, k + 1, Len(s)), rest)
             ELSE IF c = "_"
             THEN Len(s) > 0 /\ LikeMatch(SubSeq(s, 2, Len(s)), rest)
             ELSE LET wild == {i \in 1..Len(p) : SubSeq(p, i, i) \in {"%", "_"}}
                      n == IF wild = {} THEN Len(p)
                           ELSE (CHOOSE i \in wild : \A j \in wild : i <= j) - 1
                  IN  /\ Len(s) >= 1
                      /\ LowerChar(SubSeq(s, 1, 1)) = LowerChar(c)
                      /\ Len(s) >= n
                      /\ Lower(SubSeq(s, 1, n)) = Lower(SubSeq(p, 1, n))
                      /\ LikeMatch(SubSeq(s, n + 1, Len(s)), SubSeq(p, n + 1, Len(p)))

is_duplicate(db, place_data) ==
    \E i \in DOMAIN db.activities :
        LET title == db.activities[i].title
        IN  \/ title = place_data.name
            \/ /\ LikeMatch(title, "%" \o Prefix(place_data.name, 10) \o "%")
               /\ LikeMatch(title, "%" \o place_data.city \o "%")

-----------------------------------------------------------------------------
(* app.py: init_database *)

sample_activities ==
    <<[title |-> "Tilden Nature Area",
       description |-> "Beautiful hiking trails, playground, and nature center with easy walks for families.",
       activity_type |-> "outdoor", min_age |-> 0, max_age |-> 18,
       duration_minutes |-> 240, cost_category |-> "free", price_min |-> 0, price_max |-> 0,
       city |-> "Berkeley", venue_name |-> "Tilden Regional Park",
       address |-> "Berkeley Hills, Berkeley, CA", rating |-> 48, popularity_score |-> 85,
       tags |-> <<"outdoor", "nature", "hiking", "playground", "free", "family_friendly", "full_day">>],
      [title |-> "California Academy of Sciences",
       description |-> "Natural history museum with aquarium, planetarium, and rainforest dome.",
       activity_type |-> "educational", min_age |-> 3, max_age |-> 18,
       duration_minutes |-> 300, cost_category |-> "high", price_min |-> 40, price_max |-> 45,
       city |-> "San Francisco", venue_name |-> "California Academy of Sciences",
       address |-> "55 Music Concourse Dr, San Francisco, CA", rating |-> 47, popularity_score |-> 95,
       tags |-> <<"indoor", "educational", "science", "animals", "rainy_day", "full_day">>],
      [title |-> "Berkeley Public Library Story Time",
       description |-> "Weekly interactive story sessions with songs and activities for young children.",
       activity_type |-> "educational", min_age |-> 1, max_age |-> 5,
       duration_minutes |-> 45, cost_category |-> "free", price_min |-> 0, price_max |-> 0,
       city |-> "Berkeley", venue_name |-> "Berkeley Public Library",
       address |-> "2090 Kittredge St, Berkeley, CA", rating |-> 43, popularity_score |-> 60,
       tags |-> <<"indoor", "educational", "toddler_friendly", "free", "reading", "quick_visit">>],
      [title |-> "Golden Gate Park Playground",
       description |-> "Large playground with climbing structures, swings, and open space for running.",
       activity_type |-> "outdoor", min_age |-> 1, max_age |-> 12,
       duration_minutes |-> 120, cost_category |-> "free", price_min |-> 0, price_max |-> 0,
       city |-> "San Francisco", venue_name |-> "Golden Gate Park",
       address |-> "Golden Gate Park, San Francisco, CA", rating |-> 44, popularity_score |-> 75,
       tags |-> <<"outdoor", "playground", "free", "physical", "toddler_friendly", "half_day">>],
      [title |-> "Oakland Zoo",
       description |-> "Home to over 700 native and exotic animals with interactive experiences.",
       activity_type |-> "educational", min_age |-> 0, max_age |-> 18,
       duration_minutes |-> 240, cost_category |-> "medium", price_min |-> 20, price_max |-> 25,
       city |-> "Oakland", venue_name |-> "Oakland Zoo",
       address |-> "9777 Golf Links Rd, Oakland, CA", rating |-> 43, popularity_score |-> 80,
       tags |-> <<"outdoor", "educational", "animals", "family_friendly", "full_day">>]>>

\* One pass of `for activity in sample_activities`: plain INSERTs into
\* activities, venues and activity_venues, then the tag loop.  The venue's
\* google_place_id is not set (NULL, kept as the empty string).
SeedActivity(db, activity) ==
    LET activity_id == NextId(db.activities)
        venue_id == NextId(db.venues)
        a == [id |-> activity_id,
              title |-> activity.title,
              description |-> activity.description,
              activity_type |-> activity.activity_type,
              min_age |-> activity.min_age,
              max_age |-> activity.max_age,
              duration_minutes |-> activity.duration_minutes,
              cost_category |-> activity.cost_category,
              price_min |-> activity.price_min,
              price_max |-> activity.price_max,
              rating |-> activity.rating,
              popularity_score |-> activity.popularity_score,
              is_active |-> 1]
        v == [id |-> venue_id,
              name |-> activity.venue_name,
              venue_type |-> activity.activity_type,
              address |-> activity.address,
              city |-> activity.city,
              google_place_id |-> "",
              rating |-> activity.rating,
              is_open_now |-> 1]
        link == [id |-> NextId(db.activity_venues),
                 activity_id |-> activity_id, venue_id |-> venue_id]
        db1 == [db EXCEPT !.activities = Append(db.activities, a),
                          !.venues = Append(db.venues, v),
                          !.activity_venues = Append(db.activity_venues, link)]
    IN  SaveTags(db1, activity_id, activity.tags)

RECURSIVE SeedAll(_, _)
SeedAll(db, samples) ==
    IF samples = <<>> THEN db
    ELSE SeedAll(SeedActivity(db, Head(samples)), Tail(samples))

\* SELECT COUNT(*) FROM activities; the samples are inserted only into an
\* empty table.
init_database(db) ==
    IF Len(db.activities) = 0 THEN SeedAll(db, sample_activities) ELSE db

-----------------------------------------------------------------------------
(* app.py: get_activities *)

QueryLimit == 50

\* The venue columns of a joined row that has no venue (LEFT JOIN).
NullVenue ==
    [id |-> NULL, name |-> "", venue_type |-> "", address |-> "", city |-> "",
     google_place_id |-> "", rating |-> NULL, is_open_now |-> NULL]

\* activities a LEFT JOIN activity_venues av LEFT JOIN venues v: the
\* venues joined to activity a.
JoinedVenues(db, a) ==
    LET links == {i \in DOMAIN db.activity_venues :
                     db.activity_venues[i].activity_id = a.id}
        VenueOf(i) ==
            LET hits == {j \in DOMAIN db.venues :
                            db.venues[j].id = db.activity_venues[i].venue_id}
            IN  IF hits = {} THEN {NullVenue} ELSE {db.venues[j] : j \in hits}
    IN  IF links = {} THEN {NullVenue} ELSE UNION {VenueOf(i) : i \in links}

\* The names of the tags joined to activity a, in activity_tags order.
RECURSIVE TagNames(_, _, _)
TagNames(db, a, i) ==
    IF i > Len(db.activity_tags) THEN <<>>
    ELSE LET at == db.activity_tags[i]
             hits == {j \in DOMAIN db.tags : db.tags[j].id = at.tag_id}
         IN  (IF at.activity_id = a.id /\ hits # {}
              THEN <<db.tags[CHOOSE j \in hits : TRUE].name>> ELSE <<>>)
             \o TagNames(db, a, i + 1)

\* ','.join(names)
RECURSIVE JoinComma(_)
JoinComma(names) ==
    IF names = <<>> THEN ""
    ELSE IF Len(names) = 1 THEN names[1]
    ELSE names[1] \o "," \o JoinComma(Tail(names))

\* if location and location not in ['All Cities', '']
LocationFiltered(req) == req.location # "" /\ req.location # "All Cities"

\* if child_age: an age of 0 is falsy, like no age at all.
AgeFiltered(req) == req.child_age # NULL /\ req.child_age # 0

\* The condition the duration parameter adds to the WHERE clause.
DurationCondition(a, duration) ==
    IF duration = "" \/ duration = "Any" THEN TRUE
    ELSE IF Contains(duration, "30 min") THEN a.duration_minutes <= 60
    ELSE IF Contains(duration, "1 hr") THEN a.duration_minutes <= 90
    ELSE IF Contains(duration, "2 hrs") THEN a.duration_minutes <= 180
    ELSE IF Contains(duration, "4+") \/ Contains(duration, "All day")
         THEN a.duration_minutes >= 240
    ELSE TRUE

\* The WHERE clause on one joined row.  A comparison with NULL is not true.
Where(a, v, req) ==
    /\ a.is_active = 1
    /\ LocationFiltered(req) =>
          (v.id # NULL /\ LikeMatch(v.city, "%" \o req.location \o "%"))
    /\ AgeFiltered(req) =>
          /\ (a.min_age = NULL \/ a.min_age <= req.child_age)
          /\ (a.max_age = NULL \/ a.max_age >= req.child_age)
    /\ DurationCondition(a, req.duration)

FilterNames ==
    {"OUTDOOR", "INDOOR", "FREE", "LOW ENERGY", "HIGH ENERGY",
     "UNDER $25", "$25+", "HIGHLY RATED", "HAPPENING NOW"}

\* The HAVING condition of one recognised filter on a grouped row.
HavingCondition(row, filter_name) ==
    CASE filter_name = "OUTDOOR" -> row.a.activity_type = "outdoor"
      [] filter_name = "INDOOR" ->
            \/ row.a.activity_type \in {"educational", "recreational"}
            \/ LikeMatch(row.tags, "%indoor%")
      [] filter_name = "FREE" -> row.a.cost_category = "free"
      [] filter_name = "LOW ENERGY" ->
            \/ LikeMatch(row.tags, "%calming%")
            \/ row.a.activity_type = "educational"
            \/ LikeMatch(row.tags, "%reading%")
      [] filter_name = "HIGH ENERGY" ->
            \/ LikeMatch(row.tags, "%physical%")
            \/ row.a.activity_type = "outdoor"
            \/ LikeMatch(row.tags, "%playground%")
      [] filter_name = "UNDER $25" -> row.a.price_max = NULL \/ row.a.price_max < 25
      [] filter_name = "$25+" -> row.a.price_min # NULL /\ row.a.price_min >= 25
      [] filter_name = "HIGHLY RATED" -> row.a.rating # NULL /\ row.a.rating >= 45
      [] filter_name = "HAPPENING NOW" -> row.v.is_open_now = 1
      [] OTHER -> FALSE

\* ' HAVING ' + ' OR '.join(having_conditions), when there is a condition.
Having(row, filters) ==
    LET recognised == {i \in DOMAIN filters : filters[i] \in FilterNames}
    IN  recognised = {} \/ \E i \in recognised : HavingCondition(row, filters[i])

\* The rows of the FROM clause: every activity with each venue joined to
\* it, and with tags, the GROUP_CONCAT(DISTINCT t.name) of its group.
JoinedRows(db) ==
    UNION {{[a |-> db.activities[i], v |-> v,
             tags |-> JoinComma(Dedup(TagNames(db, db.activities[i], 1)))] :
               v \in JoinedVenues(db, db.activities[i])} : i \in DOMAIN db.activities}

\* The mutated form of GroupedRows: the location condition is dropped
\* from the WHERE clause.
GroupedRows_NoLocation(joined, req) ==
    LET passing == {r \in joined : Where(r.a, r.v, [req EXCEPT !.location = ""])}
    IN  {CHOOSE r \in passing : r.a.id = id : id \in {r.a.id : r \in passing}}

\* WHERE ... GROUP BY a.id: one row for each activity that has a joined
\* row passing the WHERE clause.  The venue columns of a group come from
\* one of its rows; every activity the program stores has one venue.
GroupedRows(joined, req) ==
    LET passing == {r \in joined : Where(r.a, r.v, req)}
    IN  {CHOOSE r \in passing : r.a.id = id : id \in {r.a.id : r \in passing}}

\* The characters of the stored names in code order (SQLite's BINARY
\* collation compares strings byte by byte).
AsciiOrder ==
    " &'(),-.0123456789:ABCDEFGHIJKLMNOPQRSTUVWXYZ_abcdefghijklmnopqrstuvwxyz"

CharCode(c) ==
    IF \E i \in 1..Len(AsciiOrder) : SubSeq(AsciiOrder, i, i) = c
    THEN CHOOSE i \in 1..Len(AsciiOrder) : SubSeq(AsciiOrder, i, i) = c
    ELSE 0

\* x < y: decided at the first position where the two differ; a proper
\* prefix is the smaller.
StrLess(x, y) ==
    LET n == Min(Len(x), Len(y))
        diff == {i \in 1..n : SubSeq(x, i, i) # SubSeq(y, i, i)}
    IN  IF diff = {} THEN Len(x) < Len(y)
        ELSE LET k == CHOOSE i \in diff : \A j \in diff : i <= j
             IN  CharCode(SubSeq(x, k, k)) < CharCode(SubSeq(y, k, k))

\* COALESCE(a.price_min, 0)
CoalescePrice(a) == IF a.price_min = NULL THEN 0 ELSE a.price_min

\* The ORDER BY clause: row x has to come before row y.  NULL sorts lowest.
Before(x, y, sort_by) ==
    IF sort_by = "rating"
    THEN \/ x.a.rating > y.a.rating
         \/ x.a.rating = y.a.rating /\ x.a.popularity_score > y.a.popularity_score
    ELSE IF sort_by = "popularity"
    THEN \/ x.a.popularity_score > y.a.popularity_score
         \/ x.a.popularity_score = y.a.popularity_score /\ x.a.rating > y.a.rating
    ELSE IF sort_by = "price"
    THEN CoalescePrice(x.a) < CoalescePrice(y.a)
    ELSE IF sort_by = "distance"
    THEN \/ StrLess(x.v.city, y.v.city)
         \/ x.v.city = y.v.city /\ StrLess(x.a.title, y.a.title)
    ELSE x.a.rating > y.a.rating

\* The orders in which ORDER BY may return the rows: rows that the clause
\* does not order come in any order.
RECURSIVE SortedSeqs(_, _)
SortedSeqs(rows, sort_by) ==
    IF rows = {} THEN {<<>>}
    ELSE UNION {{<<m>> \o t : t \in SortedSeqs(rows \ {m}, sort_by)} :
                    m \in {x \in rows : \A y \in rows : ~Before(y, x, sort_by)}}

\* 'tags': row['tags'].split(',') if row['tags'] else []
RECURSIVE SplitComma(_)
SplitComma(s) ==
    LET commas == {i \in 1..Len(s) : SubSeq(s, i, i) = ","}
    IN  IF commas = {} THEN <<s>>
        ELSE LET k == CHOOSE i \in commas : \A j \in commas : i <= j
             IN  <<SubSeq(s, 1, k - 1)>> \o SplitComma(SubSeq(s, k + 1, Len(s)))

\* The JSON object built for one row, without the columns the store of
\* this model does not keep (coordinates, phone, website, review count,
\* business status).
ActivityJson(row) ==
    LET shown == format_duration(row.a.duration_minutes)
    IN  [id |-> row.a.id,
         title |-> row.a.title,
         description |-> row.a.description,
         activity_type |-> row.a.activity_type,
         duration |-> shown.duration,
         duration_minutes |-> shown.duration_minutes,
         duration_category |-> shown.duration_category,
         cost_category |-> row.a.cost_category,
         price_min |-> row.a.price_min,
         price_max |-> row.a.price_max,
         venue_name |-> row.v.name,
         address |-> row.v.address,
         city |-> row.v.city,
         rating |-> IF row.a.rating = NULL \/ row.a.rating = 0 THEN 40 ELSE row.a.rating,
         popularity_score |-> IF row.a.popularity_score = NULL THEN 0
                              ELSE row.a.popularity_score,
         is_open_now |-> row.v.is_open_now # NULL /\ row.v.is_open_now # 0,
         tags |-> IF row.tags = "" THEN <<>> ELSE SplitComma(row.tags),
         category |-> row.a.activity_type]

\* The responses get_activities may give to req on the joined rows of the
\* database: the rows are grouped, filtered by HAVING, ordered, cut to
\* LIMIT 50 and turned into JSON.
get_activities(joined, req) ==
    LET rows == {row \in GroupedRows(joined, req) : Having(row, req.filters)}
    IN  {[status |-> 200,
          success |-> TRUE,
          activities |-> [i \in 1..Min(Len(sorted), QueryLimit) |-> ActivityJson(sorted[i])],
          count |-> Min(Len(sorted), QueryLimit),
          filters_applied |-> req.filters,
          location |-> req.location,
          duration |-> req.duration] : sorted \in SortedSeqs(rows, req.sort_by)}

-----------------------------------------------------------------------------
(* Values of the variables a specification does not use *)

EmptyStore ==
    /\ activities = <<>>
    /\ venues = <<>>
    /\ tags = <<>>
    /\ activity_venues = <<>>
    /\ activity_tags = <<>>

NoRequest == [location |-> "", duration |-> "", filters |-> <<>>,
              child_age |-> NULL, sort_by |-> "rating"]

NoResponse == [status |-> 0]

NoFn == [op |-> "none"]

IdleBatch == [pc |-> "idle"]

-----------------------------------------------------------------------------
(* SpecEnrich: each collector's enrichment applied to one raw place.       *)

InitEnrich ==
    /\ EmptyStore
    /\ lastOp = [op |-> "none"]
    /\ request = NoRequest
    /\ response = NoResponse
    /\ batch = IdleBatch
    /\ fn \in {[op |-> "input", place |-> p] : p \in EnrichPlaces}

\* The body of the place loop of collect_all_cities_comprehensive, up to
\* the record it would save.
MultiEnrich ==
    /\ fn.op = "input"
    /\ \E city \in EnrichCities :
         fn' = [op |-> "enhance_place_with_duration",
                place |-> fn.place,
                city |-> city,
                suitable_raises |-> is_family_suitable_raises(fn.place),
                suitable |-> is_family_suitable(fn.place),
                result |-> enhance_place_with_duration(fn.place, city)]
    /\ UNCHANGED <<store, lastOp, request, response, batch>>

\* The body of the place loop of collect_real_places.
SimpleEnrich ==
    /\ fn.op = "input"
    /\ fn' = [op |-> "enhance_place_data",
              place |-> fn.place,
              suitable_raises |-> is_family_friendly_raises(fn.place),
              suitable |-> is_family_friendly(fn.place),
              result |-> enhance_place_data(fn.place)]
    /\ UNCHANGED <<store, lastOp, request, response, batch>>

\* process_enhanced_place, up to the activity_data it saves.  This
\* collector has no suitability check.
EnhancedEnrich ==
    /\ fn.op = "input"
    /\ \E city \in EnrichCities, age_info \in AgeInfos :
         fn' = [op |-> "process_enhanced_place",
                place |-> fn.place,
                city |-> city,
                age_info |-> age_info,
                suitable_raises |-> FALSE,
                suitable |-> TRUE,
                result |-> process_enhanced_place_data(fn.place, city, age_info)]
    /\ UNCHANGED <<store, lastOp, request, response, batch>>

NextEnrich == MultiEnrich \/ SimpleEnrich \/ EnhancedEnrich

SpecEnrich == InitEnrich /\ [][NextEnrich]_vars

-----------------------------------------------------------------------------
(* SpecFormat: the display formatter applied to two stored durations.      *)

MaxDuration == 305

InitFormat ==
    /\ EmptyStore
    /\ lastOp = [op |-> "none"]
    /\ request = NoRequest
    /\ response = NoResponse
    /\ batch = IdleBatch
    /\ fn \in {[op |-> "input_durations", d1 |-> d1, d2 |-> d2] :
                  d1 \in 1..MaxDuration, d2 \in 1..MaxDuration}

FormatDurations ==
    /\ fn.op = "input_durations"
    /\ fn' = [op |-> "format_duration", d1 |-> fn.d1, d2 |-> fn.d2,
              out1 |-> format_duration(fn.d1), out2 |-> format_duration(fn.d2)]
    /\ UNCHANGED <<store, lastOp, request, response, batch>>

NextFormat == FormatDurations

SpecFormat == InitFormat /\ [][NextFormat]_vars

-----------------------------------------------------------------------------
(* Spec: the store under the collectors' place steps and the activity      *)
(* query.                                                                  *)

\* The database as one value, and its assignment to the primed tables.
Db ==
    [activities |-> activities, venues |-> venues, tags |-> tags,
     activity_venues |-> activity_venues, activity_tags |-> activity_tags]

SetDb(db) ==
    /\ activities' = db.activities
    /\ venues' = db.venues
    /\ tags' = db.tags
    /\ activity_venues' = db.activity_venues
    /\ activity_tags' = db.activity_tags

NoDb ==
    [activities |-> <<>>, venues |-> <<>>, tags |-> <<>>,
     activity_venues |-> <<>>, activity_tags |-> <<>>]

\* cities_config: the coordinates of a city, in ten-thousandths of a degree.
cities_config ==
    [c \in {"Berkeley", "San Francisco", "Oakland", "San Jose", "Palo Alto"} |->
        CASE c = "Berkeley" -> [lat |-> 378715, lng |-> 0 - 1222730]
          [] c = "San Francisco" -> [lat |-> 377749, lng |-> 0 - 1224194]
          [] c = "Oakland" -> [lat |-> 378044, lng |-> 0 - 1222712]
          [] c = "San Jose" -> [lat |-> 373382, lng |-> 0 - 1218863]
          [] c = "Palo Alto" -> [lat |-> 374419, lng |-> 0 - 1221430]]

\* The body of `for place in places` in collect_all_cities_comprehensive:
\* universal is TRUE in the loop over universal_categories, which also asks
\* is_in_city_area.  raised: an exception left the body.  With the database
\* failing (db_error), is_duplicate answers False and the save rolls back.
\* counted: the counters and the name list were advanced.
MultiPlaceStep(db, place, city_name, universal, db_error) ==
    IF (universal /\ is_in_city_area_raises(place)) \/ is_family_suitable_raises(place)
    THEN [db |-> db, raised |-> TRUE, enhanced |-> None, save_called |-> FALSE,
          saved |-> FALSE, counted |-> FALSE]
    ELSE IF ~((universal => is_in_city_area(place, city_name, cities_config[city_name]))
              /\ is_family_suitable(place))
    THEN [db |-> db, raised |-> FALSE, enhanced |-> None, save_called |-> FALSE,
          saved |-> FALSE, counted |-> FALSE]
    ELSE LET enhanced_place == enhance_place_with_duration(place, city_name)
         IN  IF enhanced_place.is_none
                \/ (~db_error /\ is_duplicate(db, enhanced_place))
             THEN [db |-> db, raised |-> FALSE, enhanced |-> enhanced_place,
                   save_called |-> FALSE, saved |-> FALSE, counted |-> FALSE]
             ELSE [db |-> Multi_save_place_to_db(db, enhanced_place, db_error),
                   raised |-> FALSE, enhanced |-> enhanced_place,
                   save_called |-> TRUE, saved |-> ~db_error, counted |-> TRUE]

\* The body of `for place in places` in collect_real_places.
SimplePlaceStep(db, place, db_error) ==
    IF is_family_friendly_raises(place)
    THEN [db |-> db, raised |-> TRUE, enhanced |-> None, save_called |-> FALSE,
          saved |-> FALSE, counted |-> FALSE]
    ELSE IF ~is_family_friendly(place)
    THEN [db |-> db, raised |-> FALSE, enhanced |-> None, save_called |-> FALSE,
          saved |-> FALSE, counted |-> FALSE]
    ELSE LET enhanced_place == enhance_place_data(place)
         IN  IF enhanced_place.is_none
             THEN [db |-> db, raised |-> FALSE, enhanced |-> enhanced_place,
                   save_called |-> FALSE, saved |-> FALSE, counted |-> FALSE]
             ELSE [db |-> Simple_save_place_to_db(db, enhanced_place, db_error),
                   raised |-> FALSE, enhanced |-> enhanced_place,
                   save_called |-> TRUE, saved |-> ~db_error, counted |-> TRUE]

\* process_enhanced_place: the record is built and saved; any exception is
\* caught inside.
EnhancedPlaceStep(db, place, city, age_info, db_error) ==
    LET activity_data == process_enhanced_place_data(place, city, age_info)
    IN  [db |-> save_enhanced_activity(db, activity_data, db_error),
         raised |-> FALSE, enhanced |-> activity_data, save_called |-> TRUE,
         saved |-> ~db_error /\ ~activity_data.name_is_null, counted |-> FALSE]

\* The raw places the provider returns in this specification.
StorePlaces ==
    {RawPlace("str", "Golden Gate Park", <<"park", "tourist_attraction">>, 44, NULL,
              "501 Stanyan St, San Francisco, CA 94117, USA"),
     RawPlace("str", "Berkeley Kids Museum", <<"museum", "point_of_interest">>, 48, 2,
              "2 Center St, Berkeley, CA 94704, USA"),
     RawPlace("null", "", <<"park">>, 40, NULL, "1 Shattuck Ave, Berkeley, CA 94704, USA"),
     RawPlace("str", "Skyline Trampoline Arena", <<"gym", "health">>, 45, 4,
              "8 Fourth St, Berkeley, CA 94710, USA")}

StoreCities == {"Berkeley"}

StoreAgeInfos == {family_place_types.museum}

\* The number of place steps a behaviour of Spec takes.
MaxSaves == 2

\* A query changes no table, so the place steps after a query are the place
\* steps before it: the specification takes them before.
Collecting == lastOp.op # "get_activities" /\ lastOp.steps < MaxSaves

\* What a place step leaves in lastOp: whether a save committed, the record
\* it committed, and whether the step before it committed the very same
\* record through the same save.
StepLog(op, step) ==
    [op |-> op,
     record |-> IF step.saved THEN step.enhanced ELSE None,
     saved |-> step.saved,
     again |-> /\ step.saved
               /\ lastOp.op = op
               /\ lastOp.saved
               /\ lastOp.record = step.enhanced,
     steps |-> lastOp.steps + 1]

\* The tables after create_tables and init_database on a new database file.
SeededStore ==
    LET db == init_database(NoDb)
    IN  /\ activities = db.activities
        /\ venues = db.venues
        /\ tags = db.tags
        /\ activity_venues = db.activity_venues
        /\ activity_tags = db.activity_tags

Init ==
    /\ SeededStore
    /\ lastOp = [op |-> "init_database", saved |-> FALSE, steps |-> 0]
    /\ request = NoRequest
    /\ response = NoResponse
    /\ fn = NoFn
    /\ batch = IdleBatch

MultiCollectPlace ==
    /\ Collecting
    /\ \E place \in StorePlaces, city_name \in StoreCities,
          universal \in BOOLEAN, db_error \in BOOLEAN :
         LET step == MultiPlaceStep(Db, place, city_name, universal, db_error)
         IN  /\ SetDb(step.db)
             /\ lastOp' = StepLog("multi_save_place_to_db", step)
    /\ response' = NoResponse
    /\ request' = NoRequest
    /\ UNCHANGED <<fn, batch>>

SimpleCollectPlace ==
    /\ Collecting
    /\ \E place \in StorePlaces, db_error \in BOOLEAN :
         LET step == SimplePlaceStep(Db, place, db_error)
         IN  /\ SetDb(step.db)
             /\ lastOp' = StepLog("simple_save_place_to_db", step)
    /\ response' = NoResponse
    /\ request' = NoRequest
    /\ UNCHANGED <<fn, batch>>

EnhancedCollectPlace ==
    /\ Collecting
    /\ \E place \in StorePlaces, city \in StoreCities,
          age_info \in StoreAgeInfos, db_error \in BOOLEAN :
         LET step == EnhancedPlaceStep(Db, place, city, age_info, db_error)
         IN  /\ SetDb(step.db)
             /\ lastOp' = StepLog("save_enhanced_activity", step)
    /\ response' = NoResponse
    /\ request' = NoRequest
    /\ UNCHANGED <<fn, batch>>

\* The query strings sent in this specification.
Request(location, duration, filters, child_age, sort_by) ==
    [location |-> location, duration |-> duration, filters |-> filters,
     child_age |-> child_age, sort_by |-> sort_by]

Requests ==
    {Request(l, "", f, NULL, "rating") :
        l \in {"", "All Cities", "Berkeley", "berkeley", "San"},
        f \in {<<>>, <<"FREE">>, <<"FREE", "HIGHLY RATED">>, <<"SPARKLY">>}}
    \cup {Request("B_rkeley", "", <<"FREE">>, NULL, "rating")}
    \cup {Request(l, "", f, age, "rating") :
            l \in {"", "Berkeley"}, f \in {<<>>, <<"FREE">>}, age \in {0, 4}}
    \cup {Request("", d, f, NULL, "rating") :
            d \in {"30 min", "1 hr", "2 hrs", "4+ hrs", "All day", "Any", "weekend"},
            f \in {<<>>, <<"OUTDOOR">>}}
    \cup {Request("", d, <<>>, NULL, "rating") :
            d \in {"30-45 min", "1-1.5 hrs", "2-3 hrs", "4-5 hrs"}}
    \cup {Request(l, "", f, NULL, "rating") :
            l \in {"", "Berkeley"},
            f \in {<<"OUTDOOR", "$25+">>, <<"INDOOR", "HAPPENING NOW">>,
                   <<"LOW ENERGY", "HIGH ENERGY">>, <<"UNDER $25">>}}
    \cup {Request(l, "", <<>>, NULL, k) :
            l \in {"Oakland", "Berkeley"},
            k \in {"popularity", "price", "distance", "newest"}}

\* GET /api/activities.  A failing database call (db_error) is caught by
\* the handler and answered with status 500.  The query leaves the store
\* as it is, so one query per store state shows every response.
GetActivities ==
    /\ lastOp.op # "get_activities"
    /\ LET joined == JoinedRows(Db)
       IN  \E req \in Requests, db_error \in BOOLEAN :
             /\ request' = req
             /\ response' \in IF db_error
                              THEN {[status |-> 500, success |-> FALSE, error |-> "str(e)"]}
                              ELSE get_activities(joined, req)
    /\ lastOp' = [op |-> "get_activities", saved |-> FALSE, steps |-> lastOp.steps]
    /\ UNCHANGED <<store, fn, batch>>

Next ==
    \/ MultiCollectPlace
    \/ SimpleCollectPlace
    \/ EnhancedCollectPlace
    \/ GetActivities

Spec == Init /\ [][Next]_vars

-----------------------------------------------------------------------------
(* SpecBatch: one collection batch of the multi-city or of the simple      *)
(* collector, query by query and place by place, up to its response.       *)

\* The batch runs the first MaxCities cities of cities_config, for each the
\* first MaxUniversal universal categories and the first MaxSpecific
\* specific searches; the simple collector runs its first MaxSearches
\* searches.  A provider result list holds at most MaxResults places.
MaxCities == 1

MaxUniversal == 1

MaxSpecific == 1

MaxSearches == 2

MaxResults == 2

city_names == <<"Berkeley", "San Francisco", "Oakland", "San Jose", "Palo Alto">>

\* The queries of collect_all_cities_comprehensive in the order it issues
\* them: for each city the universal categories, then the specific searches.
RECURSIVE MultiPlan(_)
MultiPlan(c) ==
    IF c > Min(MaxCities, Len(city_names)) THEN <<>>
    ELSE [i \in 1..MaxUniversal |-> [city |-> city_names[c], universal |-> TRUE]]
         \o [i \in 1..MaxSpecific |-> [city |-> city_names[c], universal |-> FALSE]]
         \o MultiPlan(c + 1)

\* The searches of collect_real_places; extract_city names the city.
SimplePlan == [i \in 1..MaxSearches |-> [city |-> "", universal |-> FALSE]]

Plan(collector) == IF collector = "multi" THEN MultiPlan(1) ELSE SimplePlan

\* The raw places the provider returns in this specification.
BatchPlaces ==
    {RawPlace("str", "Golden Gate Park", <<"park", "tourist_attraction">>, 44, NULL,
              "501 Stanyan St, San Francisco, CA 94117, USA"),
     RawPlace("str", "Berkeley Kids Museum", <<"museum", "point_of_interest">>, 48, 2,
              "2 Center St, Berkeley, CA 94704, USA"),
     RawPlace("null", "", <<"park">>, 40, NULL, "1 Shattuck Ave, Berkeley, CA 94704, USA"),
     RawPlace("absent", "", <<"park">>, 41, NULL, "9 Cedar St, Berkeley, CA 94704, USA")}

\* The result lists of the provider: up to MaxResults different places.
RECURSIVE ResultLists(_)
ResultLists(n) ==
    IF n = 0 THEN {<<>>}
    ELSE LET shorter == ResultLists(n - 1)
         IN  shorter \cup {Append(l, p) : l \in {x \in shorter : Len(x) = n - 1},
                                          p \in BatchPlaces}

DistinctLists == {l \in ResultLists(MaxResults) : NoDuplicates(l)}

\* What one requests.get and response.json() can give: an exception (the
\* HTTP call failed), a body with status OK and results, or a body with
\* another status.
ProviderOutcomes ==
    {[kind |-> "raise", status |-> "", results |-> <<>>],
     [kind |-> "body", status |-> "OVER_QUERY_LIMIT", results |-> <<>>]}
    \cup {[kind |-> "body", status |-> "OK", results |-> l] : l \in DistinctLists}

Raised == [raised |-> TRUE, results |-> <<>>, provider_error |-> TRUE]

\* MultiCitySmartCollector.search_places_nearby: the text search, and the
\* nearby search when the text search is not OK.  No exception is caught.
search_places_nearby(text, nearby) ==
    IF text.kind = "raise" THEN Raised
    ELSE IF text.status = "OK"
    THEN [raised |-> FALSE, results |-> Prefix(text.results, 8), provider_error |-> FALSE]
    ELSE IF nearby.kind = "raise" THEN Raised
    ELSE IF nearby.status = "OK"
    THEN [raised |-> FALSE, results |-> Prefix(nearby.results, 8), provider_error |-> TRUE]
    ELSE [raised |-> FALSE, results |-> <<>>, provider_error |-> TRUE]

\* The number of requests.get calls one search_places_nearby makes: the
\* text search, and right after it the nearby search when the text search
\* answered with another status than OK.
nearby_http_calls(text) ==
    IF text.kind = "raise" \/ text.status = "OK" THEN 1 ELSE 2

\* SimpleGooglePlacesCollector.search_places.
search_places(text) ==
    IF text.kind = "raise" THEN Raised
    ELSE IF text.status # "OK"
    THEN [raised |-> FALSE, results |-> <<>>, provider_error |-> TRUE]
    ELSE [raised |-> FALSE, results |-> Prefix(text.results, 5), provider_error |-> FALSE]

\* The batch after construction of the collector: the API key is read
\* from the environment.
StartedBatch(collector) ==
    [pc |-> "search", collector |-> collector, query |-> 1, places |-> <<>>,
     total_collected |-> 0, issued |-> 0, dropped |-> 0, aborted_by |-> "none",
     provider_failed |-> FALSE, place_failed |-> FALSE, unslept |-> 0]

\* The state of the loops once the result list of query b.query is
\* finished: time.sleep, then the next query, or the summary after the
\* last.  unslept counts the HTTP calls made since the last time.sleep.
NextQuery(b) ==
    [b EXCEPT !.places = <<>>,
              !.query = b.query + 1,
              !.unslept = 0,
              !.pc = IF b.query + 1 > Len(Plan(b.collector)) THEN "summary" ELSE "search"]

\* The except clause of collect_real_places: `continue` with the next
\* query; the time.sleep at the end of the try block is not reached.
SkipQuery(b) == [NextQuery(b) EXCEPT !.unslept = b.unslept]

\* The state of the place loop with result list l: its first place, or the
\* next query when the list is empty.
EnterList(b, l) ==
    IF l = <<>> THEN NextQuery(b) ELSE [b EXCEPT !.pc = "places", !.places = l]

InitBatch ==
    /\ SeededStore
    /\ lastOp = [op |-> "init_database", saved |-> FALSE, steps |-> 0]
    /\ request = NoRequest
    /\ response = NoResponse
    /\ fn = NoFn
    /\ batch = IdleBatch

\* GET /api/collect/multi-city-smart or /api/collect/google-places up to
\* the first query: without an API key the collector returns its error
\* object, which the endpoint sends as it is.
StartCollection ==
    /\ batch.pc = "idle"
    /\ response = NoResponse
    /\ \E collector \in {"multi", "simple"}, api_key \in BOOLEAN :
         IF api_key
         THEN /\ batch' = StartedBatch(collector)
              /\ response' = NoResponse
         ELSE /\ batch' = batch
              /\ response' = [status |-> 200, error |-> "No API key found"]
    /\ lastOp' = [op |-> "start", saved |-> FALSE, steps |-> 0]
    /\ UNCHANGED <<store, request, fn>>

\* One call of search_places_nearby in collect_all_cities_comprehensive.
\* An exception leaves the collector; the endpoint answers 500.
MultiSearch ==
    /\ batch.pc = "search" /\ batch.collector = "multi"
    /\ \E text \in ProviderOutcomes, nearby \in ProviderOutcomes :
         LET found == search_places_nearby(text, nearby)
             b == [batch EXCEPT !.issued = batch.issued + 1,
                                !.unslept = @ + nearby_http_calls(text),
                                !.provider_failed = @ \/ found.provider_error]
         IN  IF found.raised
             THEN /\ batch' = [b EXCEPT !.pc = "raised", !.aborted_by = "provider"]
                  /\ response' = [status |-> 500, success |-> FALSE, error |-> "str(e)"]
             ELSE /\ batch' = EnterList(b, found.results)
                  /\ response' = response
    /\ lastOp' = [op |-> "search_places_nearby", saved |-> FALSE, steps |-> lastOp.steps]
    /\ UNCHANGED <<store, request, fn>>

\* What a place step of a batch leaves in lastOp.
PlaceLog(op, place, step) ==
    [op |-> op, place |-> place, raised |-> step.raised,
     enhanced_is_none |-> step.enhanced.is_none,
     save_called |-> step.save_called, saved |-> step.saved,
     counted |-> step.counted, steps |-> lastOp.steps + 1]

\* A place step failed: it raised, its enrichment returned nothing, or its
\* save did not commit.
StepFailed(step) ==
    step.raised \/ (step.save_called /\ ~step.saved)
    \/ (~step.save_called /\ step.enhanced.is_none /\ ~step.raised)

\* One pass of `for place in places` in collect_all_cities_comprehensive.
\* An exception leaves the collector with the rest of the list and of the
\* queries undone; the endpoint answers 500.
MultiPlace ==
    /\ batch.pc = "places" /\ batch.collector = "multi"
    /\ \E db_error \in BOOLEAN :
         LET place == Head(batch.places)
             q == Plan("multi")[batch.query]
             step == MultiPlaceStep(Db, place, q.city, q.universal, db_error)
             b == [batch EXCEPT
                     !.total_collected = IF step.counted THEN @ + 1 ELSE @,
                     !.place_failed = @ \/ StepFailed(step)]
         IN  /\ SetDb(step.db)
             /\ lastOp' = PlaceLog("multi_place", place, step)
             /\ IF step.raised
                THEN /\ batch' = [b EXCEPT !.pc = "raised",
                                           !.aborted_by = "place",
                                           !.dropped = @ + Len(Tail(batch.places)),
                                           !.places = <<>>]
                     /\ response' = [status |-> 500, success |-> FALSE, error |-> "str(e)"]
                ELSE /\ batch' = EnterList(b, Tail(batch.places))
                     /\ response' = response
    /\ UNCHANGED <<request, fn>>

\* One call of search_places in collect_real_places.  An exception is
\* caught by the try around the search query: the loop goes on with the
\* next query.
SimpleSearch ==
    /\ batch.pc = "search" /\ batch.collector = "simple"
    /\ \E text \in ProviderOutcomes :
         LET found == search_places(text)
             b == [batch EXCEPT !.issued = batch.issued + 1,
                                !.unslept = @ + 1,
                                !.provider_failed = @ \/ found.provider_error]
         IN  batch' = IF found.raised THEN SkipQuery(b) ELSE EnterList(b, found.results)
    /\ lastOp' = [op |-> "search_places", saved |-> FALSE, steps |-> lastOp.steps]
    /\ UNCHANGED <<store, request, response, fn>>

\* One pass of `for place in places` in collect_real_places.  An exception
\* is caught by the try around the search query: the rest of the result
\* list is left out and the loop goes on with the next query.
SimplePlace ==
    /\ batch.pc = "places" /\ batch.collector = "simple"
    /\ \E db_error \in BOOLEAN :
         LET place == Head(batch.places)
             step == SimplePlaceStep(Db, place, db_error)
             b == [batch EXCEPT
                     !.total_collected = IF step.counted THEN @ + 1 ELSE @,
                     !.place_failed = @ \/ StepFailed(step)]
         IN  /\ SetDb(step.db)
             /\ lastOp' = PlaceLog("simple_place", place, step)
             /\ IF step.raised
                THEN batch' = SkipQuery([b EXCEPT !.dropped = @ + Len(Tail(batch.places))])
                ELSE batch' = EnterList(b, Tail(batch.places))
    /\ UNCHANGED <<request, response, fn>>

\* The return of the collector after its last query and the endpoint's
\* jsonify of it.
Summary ==
    /\ batch.pc = "summary"
    /\ batch' = [batch EXCEPT !.pc = "done"]
    /\ response' = [status |-> 200, success |-> TRUE,
                    total_collected |-> batch.total_collected]
    /\ lastOp' = [op |-> "summary", saved |-> FALSE, steps |-> lastOp.steps]
    /\ UNCHANGED <<store, request, fn>>

NextBatch ==
    \/ StartCollection
    \/ MultiSearch
    \/ MultiPlace
    \/ SimpleSearch
    \/ SimplePlace
    \/ Summary

SpecBatch == InitBatch /\ [][NextBatch]_vars

-----------------------------------------------------------------------------
(* SpecSave: the three save functions called on the seeded store with      *)
(* records whose tag lists the caller chose.                               *)

\* The number of save calls a behaviour of SpecSave makes.
MaxSaveCalls == 2

Range(seq) == {seq[i] : i \in DOMAIN seq}

\* The tag names init_database saves.
SeedTagNames ==
    UNION {Range(sample_activities[i].tags) : i \in DOMAIN sample_activities}

\* place_data['tags'] as a caller may pass it.  The collectors pass lists
\* without repetition; the save functions accept any list, so lists naming
\* a tag twice are here too, with tags the seed created and with new ones.
SaveTagLists ==
    {<<>>,
     <<"outdoor", "family_friendly">>,
     <<"outdoor", "outdoor", "family_friendly">>,
     <<"sparkly", "outdoor", "sparkly">>}

SavePlaces == {p \in StorePlaces : p.name \in {"Golden Gate Park", "Berkeley Kids Museum"}}

InitSave ==
    /\ SeededStore
    /\ lastOp = [op |-> "init_database", saved |-> FALSE, steps |-> 0,
                 tag_names |-> SeedTagNames]
    /\ request = NoRequest
    /\ response = NoResponse
    /\ fn = NoFn
    /\ batch = IdleBatch

\* What a save call is remembered by: the tag list it was given, the id
\* cursor.lastrowid gives its activity, the tags table it found, whether it
\* committed, and the tag names of every committed save so far.
SaveLog(op, tag_list, db_error) ==
    [op |-> op,
     saved |-> ~db_error,
     steps |-> lastOp.steps + 1,
     tag_list |-> tag_list,
     activity_id |-> NextId(activities),
     tags_before |-> tags,
     tag_names |-> IF db_error THEN lastOp.tag_names
                   ELSE lastOp.tag_names \cup Range(tag_list)]

MultiSave ==
    /\ lastOp.steps < MaxSaveCalls
    /\ \E place \in SavePlaces, city_name \in StoreCities,
          tag_list \in SaveTagLists, db_error \in BOOLEAN :
         LET place_data == [enhance_place_with_duration(place, city_name)
                               EXCEPT !.tags = tag_list]
         IN  /\ SetDb(Multi_save_place_to_db(Db, place_data, db_error))
             /\ lastOp' = SaveLog("multi_save_place_to_db", tag_list, db_error)
    /\ UNCHANGED <<request, response, fn, batch>>

SimpleSave ==
    /\ lastOp.steps < MaxSaveCalls
    /\ \E place \in SavePlaces, tag_list \in SaveTagLists, db_error \in BOOLEAN :
         LET place_data == [enhance_place_data(place) EXCEPT !.tags = tag_list]
         IN  /\ SetDb(Simple_save_place_to_db(Db, place_data, db_error))
             /\ lastOp' = SaveLog("simple_save_place_to_db", tag_list, db_error)
    /\ UNCHANGED <<request, response, fn, batch>>

EnhancedSave ==
    /\ lastOp.steps < MaxSaveCalls
    /\ \E place \in SavePlaces, city \in StoreCities, age_info \in StoreAgeInfos,
          tag_list \in SaveTagLists, db_error \in BOOLEAN :
         LET activity_data == [process_enhanced_place_data(place, city, age_info)
                                  EXCEPT !.tags = tag_list]
         IN  /\ SetDb(save_enhanced_activity(Db, activity_data, db_error))
             /\ lastOp' = SaveLog("save_enhanced_activity", tag_list, db_error)
    /\ UNCHANGED <<request, response, fn, batch>>

NextSave ==
    \/ MultiSave
    \/ SimpleSave
    \/ EnhancedSave

SpecSave == InitSave /\ [][NextSave]_vars

-----------------------------------------------------------------------------
(* SpecPages: one call of search_places_by_type of the enhanced collector, *)
(* page by page.  batch holds the local state of the call.                 *)

\* The provider hands out at most MaxTokens continuation tokens for one
\* search.  Token k is the k-th one; 0 stands for a body without the key
\* next_page_token and for params without the key pagetoken.
MaxTokens == 2

\* get_city_coordinates: the cities of its table, None for any other.
city_coords == {"Berkeley", "San Francisco", "Oakland", "San Jose", "Sausalito"}

\* `while 'next_page_token' in data`, stuck at true.
has_next_page_Always(data) == TRUE

\* `while 'next_page_token' in data`.
has_next_page(data) == data.next_page_token # 0

\* The result lists of a page in this specification.
PageResultLists ==
    LET gg == CHOOSE p \in StorePlaces : p.name = "Golden Gate Park"
        km == CHOOSE p \in StorePlaces : p.name = "Berkeley Kids Museum"
    IN  {<<>>, <<gg>>, <<km, gg>>}

\* What requests.get and response.json() give for a page when the provider
\* has handed out `issued` tokens so far: an exception, or a body with a
\* status, results and, while tokens are left, possibly the next token.
PageOutcomes(issued) ==
    {[kind |-> "raise", status |-> "", results |-> <<>>, next_page_token |-> 0]}
    \cup {[kind |-> "body", status |-> st, results |-> l, next_page_token |-> t] :
            st \in {"OK", "INVALID_REQUEST"},
            l \in PageResultLists,
            t \in {0} \cup (IF issued < MaxTokens THEN {issued + 1} ELSE {})}

\* `for place in data.get('results', [])`: get_place_details, and
\* process_enhanced_place for the places whose details were returned.
RECURSIVE ProcessPage(_, _, _, _, _)
ProcessPage(db, results, city, details_ok, db_error) ==
    IF results = <<>> THEN db
    ELSE LET age_info == CHOOSE a \in StoreAgeInfos : TRUE
             db1 == IF details_ok
                    THEN EnhancedPlaceStep(db, Head(results), city, age_info, db_error).db
                    ELSE db
         IN  ProcessPage(db1, Tail(results), city, details_ok, db_error)

NoData == [kind |-> "none", status |-> "", results |-> <<>>, next_page_token |-> 0]

InitPages ==
    /\ SeededStore
    /\ lastOp = [op |-> "init_database", saved |-> FALSE, steps |-> 0]
    /\ request = NoRequest
    /\ response = NoResponse
    /\ fn = NoFn
    /\ batch = [pc |-> "first", city |-> "", data |-> NoData, pagetoken |-> 0,
                fetched |-> 0, slept |-> FALSE, raised |-> FALSE, no_coords |-> FALSE]

\* The page a requests.get returned is taken in: its places are processed
\* when its status is OK; an exception goes to the except clause, which
\* ends the call.
TakePage(b, r, city, details_ok, db_error) ==
    /\ IF r.kind = "body" /\ r.status = "OK"
       THEN SetDb(ProcessPage(Db, r.results, city, details_ok, db_error))
       ELSE UNCHANGED store
    /\ batch' = IF r.kind = "raise"
                THEN [b EXCEPT !.pc = "done", !.raised = TRUE, !.slept = FALSE]
                ELSE [b EXCEPT !.pc = "while", !.data = r, !.slept = FALSE,
                               !.fetched = @ + 1]

\* search_places_by_type up to the end of its first page: the city's
\* coordinates (return when there are none), the nearby search, the
\* processing of its results.
FirstPage ==
    /\ batch.pc = "first"
    /\ \E city \in {"Berkeley", "Atlantis"} :
         IF city \notin city_coords
         THEN /\ batch' = [batch EXCEPT !.pc = "done", !.city = city, !.no_coords = TRUE]
              /\ UNCHANGED store
         ELSE \E r \in PageOutcomes(0), details_ok \in BOOLEAN, db_error \in BOOLEAN :
                TakePage([batch EXCEPT !.city = city], r, city, details_ok, db_error)
    /\ lastOp' = [op |-> "first_page", saved |-> FALSE, steps |-> 0]
    /\ UNCHANGED <<request, response, fn>>

\* The test of `while 'next_page_token' in data`.
WhileTest ==
    /\ batch.pc = "while"
    /\ batch' = [batch EXCEPT !.pc = IF has_next_page(batch.data) THEN "sleep" ELSE "done"]
    /\ lastOp' = [op |-> "while", saved |-> FALSE, steps |-> 0]
    /\ UNCHANGED <<store, request, response, fn>>

\* time.sleep(2), the first statement of the loop body.
TokenDelay ==
    /\ batch.pc = "sleep"
    /\ batch' = [batch EXCEPT !.pc = "fetch", !.slept = TRUE]
    /\ lastOp' = [op |-> "sleep", saved |-> FALSE, steps |-> 0]
    /\ UNCHANGED <<store, request, response, fn>>

\* The rest of the loop body: params['pagetoken'] = data['next_page_token'],
\* requests.get, the processing of the page.  lastOp keeps what the fetch
\* was made with.
NextPage ==
    /\ batch.pc = "fetch"
    /\ LET pagetoken == batch.data.next_page_token
       IN  /\ \E r \in PageOutcomes(pagetoken), details_ok \in BOOLEAN, db_error \in BOOLEAN :
                TakePage([batch EXCEPT !.pagetoken = pagetoken], r, batch.city,
                         details_ok, db_error)
           /\ lastOp' = [op |-> "next_page", saved |-> FALSE, steps |-> 0,
                         slept |-> batch.slept, pagetoken |-> pagetoken,
                         previous |-> batch.data]
    /\ UNCHANGED <<request, response, fn>>

NextPages ==
    \/ FirstPage
    \/ WhileTest
    \/ TokenDelay
    \/ NextPage

\* The call runs on its own thread of control: it keeps taking steps.
SpecPages == InitPages /\ [][NextPages]_vars /\ WF_vars(NextPages)

-----------------------------------------------------------------------------
(* SpecSchema: update_schema run again and again on the tables that        *)
(* create_tables left.  batch holds the columns of activities and venues.  *)

\* The number of update_schema runs of a behaviour.
MaxRuns == 2

\* new_columns of update_schema, as (table, column) in the order of the list.
new_columns ==
    <<<<"activities", "rating">>, <<"activities", "popularity_score">>,
      <<"venues", "google_place_id">>, <<"venues", "google_url">>,
      <<"venues", "business_status">>, <<"venues", "opening_hours">>,
      <<"venues", "is_open_now">>, <<"venues", "phone">>, <<"venues", "website">>>>

\* The columns of activities and venues that create_tables defines and
\* update_schema does not list.
base_columns ==
    {<<"activities", c>> : c \in {"id", "title", "description", "activity_type",
        "min_age", "max_age", "duration_minutes", "cost_category", "price_min",
        "price_max", "difficulty_level", "group_size_min", "group_size_max",
        "created_at", "updated_at", "is_active"}}
    \cup {<<"venues", c>> : c \in {"id", "name", "venue_type", "address", "city",
        "state", "zip_code", "country", "latitude", "longitude", "rating",
        "is_wheelchair_accessible", "parking_available", "created_at", "updated_at"}}

\* CREATE TABLE IF NOT EXISTS leaves a table of an earlier database file as
\* it is: a new file gets every column, an earlier file may lack the
\* columns update_schema lists, here none, those of activities, those of
\* venues, or all of them.
create_tables_columns ==
    {base_columns \cup {new_columns[i] : i \in keep} :
        keep \in {1..9, 3..9, 1..2, {}}}

\* The loop of update_schema without its inner try: the first ALTER TABLE
\* that raises ends it.
RECURSIVE update_schema_StopAtFailure(_, _, _)
update_schema_StopAtFailure(columns, failing, i) ==
    IF i > Len(new_columns) THEN columns
    ELSE IF new_columns[i] \in columns \/ new_columns[i] \in failing THEN columns
    ELSE update_schema_StopAtFailure(columns \cup {new_columns[i]}, failing, i + 1)

\* The loop of update_schema from entry i of new_columns on: ALTER TABLE
\* ADD COLUMN raises sqlite3.OperationalError for a column that exists
\* ("duplicate column name") and for the columns in `failing` (any other
\* operational error, such as a locked database); the inner except clause
\* catches it and the loop goes on.
RECURSIVE update_schema(_, _, _)
update_schema(columns, failing, i) ==
    IF i > Len(new_columns) THEN columns
    ELSE IF new_columns[i] \in columns \/ new_columns[i] \in failing
    THEN update_schema(columns, failing, i + 1)
    ELSE update_schema(columns \cup {new_columns[i]}, failing, i + 1)

InitSchema ==
    /\ EmptyStore
    /\ lastOp = [op |-> "create_tables", saved |-> FALSE, steps |-> 0]
    /\ request = NoRequest
    /\ response = NoResponse
    /\ fn = NoFn
    /\ \E columns \in create_tables_columns :
         batch = [pc |-> "schema", columns |-> columns, runs |-> 0,
                  first |-> {}, clean |-> TRUE]

\* One run of update_schema.  lastOp keeps the columns it found and the
\* columns whose ALTER TABLE failed for another reason than their
\* existence; batch.first keeps the columns after the first run and
\* batch.clean whether no run so far had such a failure.
UpdateSchema ==
    /\ batch.pc = "schema"
    /\ batch.runs < MaxRuns
    /\ \E failing \in SUBSET {new_columns[i] : i \in DOMAIN new_columns} :
         /\ failing \cap batch.columns = {}
         /\ LET after == update_schema(batch.columns, failing, 1)
            IN  /\ batch' = [batch EXCEPT
                               !.columns = after,
                               !.runs = @ + 1,
                               !.first = IF batch.runs = 0 THEN after ELSE @,
                               !.clean = @ /\ failing = {}]
                /\ lastOp' = [op |-> "update_schema", saved |-> FALSE, steps |-> 0,
                              before |-> batch.columns, failed |-> failing,
                              raised |-> FALSE]
    /\ UNCHANGED <<store, request, response, fn>>

NextSchema == UpdateSchema

SpecSchema == InitSchema /\ [][NextSchema]_vars

-----------------------------------------------------------------------------
(* SpecRace: two multi-city batches, each started by its own request to    *)
(* /api/collect/multi-city-smart, run in two threads of the server on one  *)
(* database file.  Each batch walks the results of a city-specific search; *)
(* for a place it first runs the test of the if statement, is_duplicate    *)
(* included (one connection), and then save_place_to_db (another           *)
(* connection).  The two threads take turns between these statements.      *)

\* The number of results a search hands to a batch.
MaxRaceResults == 2

Batches == {1, 2}

RacePlaces == {p \in StorePlaces : p.name_key = "str"}

\* Result lists of distinct places, the provider's order kept open.
RaceLists ==
    {l \in UNION {[1..n -> RacePlaces] : n \in 1..MaxRaceResults} :
        \A i, j \in DOMAIN l : i # j => l[i] # l[j]}

\* One batch run alone on db over the results of a city-specific search.
\* An exception in a place step leaves the collector.
RECURSIVE RunBatch(_, _, _)
RunBatch(db, places, city_name) ==
    IF places = <<>> THEN db
    ELSE LET step == MultiPlaceStep(db, Head(places), city_name, FALSE, FALSE)
         IN  IF step.raised THEN db
             ELSE RunBatch(step.db, Tail(places), city_name)

InitRace ==
    /\ SeededStore
    /\ lastOp = [op |-> "init_database", saved |-> FALSE, steps |-> 0, by |-> 0]
    /\ request = NoRequest
    /\ response = NoResponse
    /\ fn = NoFn
    /\ \E l1, l2 \in RaceLists, city_name \in StoreCities :
         batch = [pc |-> "race",
                  city |-> city_name,
                  places |-> <<l1, l2>>,
                  next |-> <<1, 1>>,
                  at |-> <<"test", "test">>,
                  enhanced |-> <<None, None>>,
                  seed |-> Db]

\* Thread w moves on to its next place, or to the end of its batch.
NextPlace(b, w) ==
    [b EXCEPT !.next[w] = @ + 1,
              !.at[w] = IF b.next[w] = Len(b.places[w]) THEN "done" ELSE "test",
              !.enhanced[w] = None]

\* if self.is_family_suitable(place): enhanced_place = ...; if enhanced_place
\* and not self.is_duplicate(enhanced_place): the test reads the table as
\* it is now.
RaceTest ==
    /\ batch.pc = "race"
    /\ \E w \in Batches :
         /\ batch.at[w] = "test"
         /\ LET step == MultiPlaceStep(Db, batch.places[w][batch.next[w]],
                                       batch.city, FALSE, FALSE)
            IN  /\ batch' = IF step.raised
                            THEN [batch EXCEPT !.at[w] = "done"]
                            ELSE IF step.save_called
                            THEN [batch EXCEPT !.at[w] = "save",
                                               !.enhanced[w] = step.enhanced]
                            ELSE NextPlace(batch, w)
                /\ lastOp' = [op |-> "is_duplicate", saved |-> FALSE,
                              steps |-> lastOp.steps + 1, by |-> w]
    /\ UNCHANGED <<store, request, response, fn>>

\* self.save_place_to_db(enhanced_place), on the table as it is now.
RaceSave ==
    /\ batch.pc = "race"
    /\ \E w \in Batches :
         /\ batch.at[w] = "save"
         /\ SetDb(Multi_save_place_to_db(Db, batch.enhanced[w], FALSE))
         /\ batch' = NextPlace(batch, w)
         /\ lastOp' = [op |-> "multi_save_place_to_db", saved |-> TRUE,
                       steps |-> lastOp.steps + 1, by |-> w]
    /\ UNCHANGED <<request, response, fn>>

NextRace ==
    \/ RaceTest
    \/ RaceSave

SpecRace == InitRace /\ [][NextRace]_vars

-----------------------------------------------------------------------------
(* SpecAtomic: a save as the transaction it is.  The connection opens a    *)
(* transaction at its first INSERT; the statements work on the             *)
(* transaction's copy of the tables; conn.commit() publishes the copy,     *)
(* and a statement that raises sends control to the except clause, whose   *)
(* conn.rollback() discards it.                                            *)

\* The number of saves a behaviour of SpecAtomic makes.
MaxAtomicSaves == 2

\* The statements of a save: the two inserts, the link, one round of the
\* tag loop per tag and, in save_enhanced_activity for a place with opening
\* hours, the UPDATE of the venue.
StatementCount(tag_list, is_open_now) ==
    3 + Len(tag_list) + (IF is_open_now = NULL THEN 0 ELSE 1)

\* The transaction's copy of the tables after the first n statements.
RECURSIVE SaveStatements(_, _, _, _, _, _)
SaveStatements(db, arow, vrow, tag_list, is_open_now, n) ==
    IF n = 0 THEN db
    ELSE
    LET work == SaveStatements(db, arow, vrow, tag_list, is_open_now, n - 1)
        activity_id == NextId(db.activities)
        venue_id == NextId(db.venues)
    IN  IF n = 1
        THEN [work EXCEPT !.activities =
                 InsertOrReplace(work.activities, [arow EXCEPT !.id = activity_id],
                                 activities_unique)]
        ELSE IF n = 2
        THEN [work EXCEPT !.venues =
                 InsertOrReplace(work.venues, [vrow EXCEPT !.id = venue_id],
                                 venues_unique)]
        ELSE IF n = 3
        THEN [work EXCEPT !.activity_venues =
                 InsertOrIgnore(work.activity_venues,
                                [id |-> NextId(work.activity_venues),
                                 activity_id |-> activity_id, venue_id |-> venue_id],
                                activity_venues_unique)]
        ELSE IF n <= 3 + Len(tag_list)
        THEN SaveTags(work, activity_id, <<tag_list[n - 3]>>)
        ELSE [work EXCEPT !.venues =
                 [i \in DOMAIN work.venues |->
                     IF work.venues[i].id = venue_id
                     THEN [work.venues[i] EXCEPT !.is_open_now = is_open_now]
                     ELSE work.venues[i]]]

\* A connection in autocommit mode: what was executed stays.
rollback_KeepsWork(db, work) == work

\* conn.rollback(): the tables are those before the transaction.
rollback(db, work) == db

\* conn.commit().
commit(db, work) == work

\* The save with statement fail_at raising; 0 is no statement raising.
SaveTransaction(db, arow, vrow, tag_list, is_open_now, fail_at) ==
    IF fail_at = 0
    THEN commit(db, SaveStatements(db, arow, vrow, tag_list, is_open_now,
                                   StatementCount(tag_list, is_open_now)))
    ELSE rollback(db, SaveStatements(db, arow, vrow, tag_list, is_open_now,
                                     fail_at - 1))

AtomicTagLists == {<<>>, <<"outdoor", "sparkly">>}

InitAtomic ==
    /\ SeededStore
    /\ lastOp = [op |-> "init_database", saved |-> FALSE, steps |-> 0]
    /\ request = NoRequest
    /\ response = NoResponse
    /\ fn = NoFn
    /\ batch = IdleBatch

\* What a transaction is remembered by: the tables before it, its copy of
\* the tables when it ended, the statement that raised, and the tables the
\* save function gives when no statement raises.
AtomicLog(op, arow, vrow, tag_list, is_open_now, fail_at, whole) ==
    [op |-> op,
     saved |-> fail_at = 0,
     steps |-> lastOp.steps + 1,
     fail_at |-> fail_at,
     before |-> Db,
     work |-> SaveStatements(Db, arow, vrow, tag_list, is_open_now,
                             IF fail_at = 0 THEN StatementCount(tag_list, is_open_now)
                             ELSE fail_at - 1),
     whole |-> whole,
     title |-> arow.title,
     tag_list |-> tag_list,
     activity_id |-> NextId(activities)]

MultiAtomic ==
    /\ lastOp.steps < MaxAtomicSaves
    /\ \E place \in SavePlaces, city_name \in StoreCities, tag_list \in AtomicTagLists :
         LET place_data == [enhance_place_with_duration(place, city_name)
                               EXCEPT !.tags = tag_list]
             arow == Multi_activity_row(place_data)
             vrow == VenueRow(place_data)
         IN  \E fail_at \in 0..StatementCount(tag_list, NULL) :
               /\ SetDb(SaveTransaction(Db, arow, vrow, tag_list, NULL, fail_at))
               /\ lastOp' = AtomicLog("multi_save_place_to_db", arow, vrow, tag_list,
                                      NULL, fail_at,
                                      Multi_save_place_to_db(Db, place_data, FALSE))
    /\ UNCHANGED <<request, response, fn, batch>>

SimpleAtomic ==
    /\ lastOp.steps < MaxAtomicSaves
    /\ \E place \in SavePlaces, tag_list \in AtomicTagLists :
         LET place_data == [enhance_place_data(place) EXCEPT !.tags = tag_list]
             arow == Simple_activity_row(place_data)
             vrow == VenueRow(place_data)
         IN  \E fail_at \in 0..StatementCount(tag_list, NULL) :
               /\ SetDb(SaveTransaction(Db, arow, vrow, tag_list, NULL, fail_at))
               /\ lastOp' = AtomicLog("simple_save_place_to_db", arow, vrow, tag_list,
                                      NULL, fail_at,
                                      Simple_save_place_to_db(Db, place_data, FALSE))
    /\ UNCHANGED <<request, response, fn, batch>>

EnhancedAtomic ==
    /\ lastOp.steps < MaxAtomicSaves
    /\ \E place \in SavePlaces, city \in StoreCities, age_info \in StoreAgeInfos,
          tag_list \in AtomicTagLists :
         LET activity_data == [process_enhanced_place_data(place, city, age_info)
                                  EXCEPT !.tags = tag_list]
             arow == Enhanced_activity_row(activity_data)
             vrow == VenueRow(activity_data)
             is_open_now == activity_data.is_open_now
         IN  \E fail_at \in 0..StatementCount(tag_list, is_open_now) :
               /\ SetDb(SaveTransaction(Db, arow, vrow, tag_list, is_open_now, fail_at))
               /\ lastOp' = AtomicLog("save_enhanced_activity", arow, vrow, tag_list,
                                      is_open_now, fail_at,
                                      save_enhanced_activity(Db, activity_data, FALSE))
    /\ UNCHANGED <<request, response, fn, batch>>

NextAtomic ==
    \/ MultiAtomic
    \/ SimpleAtomic
    \/ EnhancedAtomic

SpecAtomic == InitAtomic /\ [][NextAtomic]_vars

-----------------------------------------------------------------------------
(* SpecRerun: whole batches run one after the other, each against the      *)
(* same provider results.                                                  *)

\* The number of batches a behaviour of SpecRerun runs.
MaxBatchRuns == 3

\* Result lists of distinct places, the nameless place among them.
RerunLists ==
    {l \in UNION {[1..n -> StorePlaces] : n \in 1..MaxRaceResults} :
        \A i, j \in DOMAIN l : i # j => l[i] # l[j]}

\* collect_real_places over the results of one search query: an exception
\* in a place step is caught by the try around the query, which ends the
\* place loop.
RECURSIVE RunSimpleBatch(_, _)
RunSimpleBatch(db, places) ==
    IF places = <<>> THEN db
    ELSE LET step == SimplePlaceStep(db, Head(places), FALSE)
         IN  IF step.raised THEN db
             ELSE RunSimpleBatch(step.db, Tail(places))

InitRerun ==
    /\ SeededStore
    /\ lastOp = [op |-> "init_database", saved |-> FALSE, steps |-> 0,
                 collector |-> "none", previous |-> "none", added |-> 0]
    /\ request = NoRequest
    /\ response = NoResponse
    /\ fn = NoFn
    /\ \E l \in RerunLists, city_name \in StoreCities :
         batch = [pc |-> "rerun", city |-> city_name, places |-> l]

\* What a batch is remembered by: its collector, the collector of the batch
\* before it, and the number of activities rows it added.
RerunLog(collector, db) ==
    [op |-> "batch", saved |-> Len(db.activities) > Len(activities),
     steps |-> lastOp.steps + 1,
     collector |-> collector, previous |-> lastOp.collector,
     added |-> Len(db.activities) - Len(activities)]

MultiBatchRun ==
    /\ batch.pc = "rerun" /\ lastOp.steps < MaxBatchRuns
    /\ LET db == RunBatch(Db, batch.places, batch.city)
       IN  /\ SetDb(db)
           /\ lastOp' = RerunLog("multi", db)
    /\ UNCHANGED <<request, response, fn, batch>>

SimpleBatchRun ==
    /\ batch.pc = "rerun" /\ lastOp.steps < MaxBatchRuns
    /\ LET db == RunSimpleBatch(Db, batch.places)
       IN  /\ SetDb(db)
           /\ lastOp' = RerunLog("simple", db)
    /\ UNCHANGED <<request, response, fn, batch>>

NextRerun ==
    \/ MultiBatchRun
    \/ SimpleBatchRun

SpecRerun == InitRerun /\ [][NextRerun]_vars

-----------------------------------------------------------------------------
(* Claims about the enrichment functions *)

EnrichDone == fn.op \in {"enhance_place_with_duration", "enhance_place_data",
                         "process_enhanced_place"}

\* C5 (as claimed): a raw place whose lowercased name contains an exclude
\* keyword is rejected by the suitability predicate of the multi-city and
\* of the simple collector, whatever its rating, types and other keywords.
C5_ExcludedNameRejected ==
    (/\ fn.op \in {"enhance_place_with_duration", "enhance_place_data"}
     /\ fn.place.name_key = "str"
     /\ ContainsAny(Lower(fn.place.name), exclude_keywords))
    => (~fn.suitable_raises /\ fn.suitable = FALSE)

\* C6 (as claimed): the tag list of every enriched record contains
\* "family_friendly" and contains no tag twice.
C6_TagsFamilyFriendlyNoDup ==
    (EnrichDone /\ ~fn.result.is_none)
    => (InList("family_friendly", fn.result.tags) /\ NoDuplicates(fn.result.tags))

\* C7: a raw place whose types contain "park" and that carries no price
\* level gets cost_category "free" and price_min = price_max = 0 from every
\* cost estimator, whatever its other types and its name.
C7_ParkIsFree ==
    (/\ EnrichDone
     /\ ~fn.result.is_none
     /\ InList("park", fn.place.types)
     /\ fn.place.price_level = NULL)
    => (/\ fn.result.cost_category = "free"
        /\ fn.result.price_min = 0
        /\ fn.result.price_max = 0)

\* C7 witness: the enhanced collector priced a park without a price level
\* whose name carries a low-cost keyword.
C7_Witness ==
    /\ fn.op = "process_enhanced_place"
    /\ InList("park", fn.place.types)
    /\ fn.place.price_level = NULL
    /\ fn.place.name = "Park Cafe"
    /\ fn.result.cost_category = "free"

DisplayLabels == <<"30-45 min", "1-1.5 hrs", "2-3 hrs", "4-5 hrs", "All day">>

\* The position of a label in the order of the five display labels, 0 for
\* anything else.
LabelRank(label) ==
    IF \E i \in DOMAIN DisplayLabels : DisplayLabels[i] = label
    THEN CHOOSE i \in DOMAIN DisplayLabels : DisplayLabels[i] = label
    ELSE 0

\* C8: the display formatter gives every stored duration one of the five
\* labels, and of two durations d1 <= d2 the label of d1 is not later in the
\* label order than the label of d2.
C8_FormatterTotalMonotonic ==
    fn.op = "format_duration"
    => (/\ LabelRank(fn.out1.duration) \in 1..5
        /\ LabelRank(fn.out2.duration) \in 1..5
        /\ (fn.d1 <= fn.d2 => LabelRank(fn.out1.duration) <= LabelRank(fn.out2.duration)))

\* C8 witness: two durations on either side of the last threshold were
\* formatted, one "4-5 hrs" and one "All day".
C8_Witness ==
    /\ fn.op = "format_duration"
    /\ fn.d1 = 300 /\ fn.d2 = 301
    /\ fn.out1.duration = "4-5 hrs"
    /\ fn.out2.duration = "All day"

-----------------------------------------------------------------------------
(* Claims about the store *)

SaveOps == {"multi_save_place_to_db", "simple_save_place_to_db", "save_enhanced_activity"}

\* The rows the store holds for a saved record: activities by title, venues
\* by name and place id, and the links between the two.
RowsFor(record) ==
    LET acts == {i \in DOMAIN activities : activities[i].title = record.name}
        vens == {i \in DOMAIN venues :
                    /\ venues[i].name = record.name
                    /\ venues[i].google_place_id = record.place_id}
        links == {i \in DOMAIN activity_venues :
                     /\ \E k \in acts : activities[k].id = activity_venues[i].activity_id
                     /\ \E k \in vens : venues[k].id = activity_venues[i].venue_id}
    IN  [activities |-> Cardinality(acts), venues |-> Cardinality(vens),
         links |-> Cardinality(links)]

\* C1 (as claimed): when a save commits the record that the same save
\* committed in the step before, the store holds exactly one activities
\* row with the record's title, one venues row with its name and place id,
\* and one activity_venues row linking them.
C1_UpsertIdempotent ==
    (lastOp.op \in SaveOps /\ lastOp.again)
    => RowsFor(lastOp.record) = [activities |-> 1, venues |-> 1, links |-> 1]

-----------------------------------------------------------------------------
(* Claims about the activity query *)

Answered == lastOp.op = "get_activities" /\ response.status = 200

\* The stored activity with the given id, joined with its venue and tags.
StoredRow(id) ==
    LET a == activities[CHOOSE i \in DOMAIN activities : activities[i].id = id]
    IN  [a |-> a,
         v |-> CHOOSE v \in JoinedVenues(Db, a) : TRUE,
         tags |-> JoinComma(Dedup(TagNames(Db, a, 1)))]

StoredRows == {StoredRow(activities[i].id) : i \in DOMAIN activities}

ReturnedIds == {response.activities[i].id : i \in DOMAIN response.activities}

\* The returned list is in descending order of the stored rating.
RatingDescending ==
    \A i, j \in DOMAIN response.activities :
        i < j => StoredRow(response.activities[i].id).a.rating
                 >= StoredRow(response.activities[j].id).a.rating

FreeQuery == request.filters = <<"FREE">> /\ request.sort_by = "rating"

\* C9 (as claimed): for every location L, the query with location L, the
\* single facet FREE and no sort key returns only active free activities
\* whose venue's city contains L as a substring, in descending order of
\* rating.
C9_FreeInLocation ==
    (Answered /\ FreeQuery)
    => /\ \A id \in ReturnedIds :
            /\ StoredRow(id).a.is_active = 1
            /\ StoredRow(id).a.cost_category = "free"
            /\ Contains(StoredRow(id).v.city, request.location)
       /\ RatingDescending

\* L is an ordinary location: not one of the two values that stand for
\* "no location", and free of the LIKE wildcards.
PlainLocation(l) ==
    /\ l # "" /\ l # "All Cities"
    /\ ~Contains(l, "%") /\ ~Contains(l, "_")

\* C9 (amended): for every ordinary location L, the query with location L,
\* the single facet FREE and no sort key returns only active free
\* activities whose venue's city contains L without regard to letter case,
\* in descending order of rating.
C9_FreeInLocationAnyCase ==
    (Answered /\ FreeQuery /\ PlainLocation(request.location))
    => /\ \A id \in ReturnedIds :
            /\ StoredRow(id).a.is_active = 1
            /\ StoredRow(id).a.cost_category = "free"
            /\ Contains(Lower(StoredRow(id).v.city), Lower(request.location))
       /\ RatingDescending

\* C9 witness: the query for free activities in "berkeley" returned the two
\* free seeded Berkeley activities, and the store also holds a Berkeley
\* activity that is not free.
C9_Witness ==
    /\ Answered /\ FreeQuery
    /\ request.location = "berkeley"
    /\ request.child_age = NULL
    /\ response.count >= 2
    /\ response.activities[1].title = "Tilden Nature Area"
    /\ \E i \in DOMAIN activities :
          /\ activities[i].cost_category # "free"
          /\ activities[i].id \notin ReturnedIds
          /\ StoredRow(activities[i].id).v.city = "Berkeley"

\* An activity satisfies the request's filters as the claim combines them:
\* every supplied location, age and duration filter, and one of the
\* recognised facets when there is one.
Satisfies(row) ==
    /\ row.a.is_active = 1
    /\ LocationFiltered(request) =>
          LikeMatch(row.v.city, "%" \o request.location \o "%")
    /\ request.child_age # NULL =>
          /\ (row.a.min_age = NULL \/ row.a.min_age <= request.child_age)
          /\ (row.a.max_age = NULL \/ row.a.max_age >= request.child_age)
    /\ DurationCondition(row.a, request.duration)
    /\ (\E i \in DOMAIN request.filters : request.filters[i] \in FilterNames)
          => \E i \in DOMAIN request.filters :
                /\ request.filters[i] \in FilterNames
                /\ HavingCondition(row, request.filters[i])

\* C10 (as claimed): an activity is returned iff it is active, satisfies
\* every supplied location, age and duration filter and, when a recognised
\* facet is supplied, at least one of the supplied facets.
C10_FacetsOrFiltersAnd ==
    Answered
    => ReturnedIds = {row.a.id : row \in {r \in StoredRows : Satisfies(r)}}

-----------------------------------------------------------------------------
(* Claims about the collection batches *)

BatchRunning == batch.pc # "idle"

\* C2 (as claimed): when the processing of a raw place fails, no place of
\* the provider's result lists is left unprocessed and the batch is not
\* ended by that failure: it goes on to its summary.
C2_BadRecordNeverAborts ==
    (BatchRunning /\ batch.place_failed)
    => (batch.dropped = 0 /\ batch.aborted_by # "place")

\* C3 (as claimed): for a raw place without a name the enrichment returns
\* nothing, no save is made for it and the batch's total is not advanced.
C3_NamelessNotCollected ==
    (/\ lastOp.op \in {"multi_place", "simple_place"}
     /\ lastOp.place.name_key # "str")
    => (lastOp.enhanced_is_none /\ ~lastOp.save_called /\ ~lastOp.counted)

\* C4 (as claimed): a provider error on a query (a status other than OK or
\* a failed HTTP call) counts as no results for that query: the batch is
\* not ended by it, and a finished batch has issued every query of its plan
\* and answers with a success summary.
C4_ProviderErrorIsZeroResults ==
    (BatchRunning /\ batch.provider_failed)
    => /\ batch.aborted_by # "provider"
       /\ batch.pc = "done" =>
             (batch.issued = Len(Plan(batch.collector)) /\ response.success = TRUE)

-----------------------------------------------------------------------------
(* Claims about the age and duration filters of the activity query *)

\* C11 (as claimed): whenever a child_age is supplied (every non-negative
\* integer, 0 included), each returned activity has min_age null or at most
\* child_age, and max_age null or at least child_age.
C11_ChildAgeContainment ==
    (Answered /\ request.child_age # NULL)
    => \A id \in ReturnedIds :
          /\ StoredRow(id).a.min_age = NULL \/ StoredRow(id).a.min_age <= request.child_age
          /\ StoredRow(id).a.max_age = NULL \/ StoredRow(id).a.max_age >= request.child_age

\* C12 (as claimed): when the duration parameter is one of the five labels
\* the API returns ("30-45 min", "1-1.5 hrs", "2-3 hrs", "4-5 hrs",
\* "All day"), every returned activity's own duration label is that label.
C12_DurationLabelRoundTrip ==
    (Answered /\ InList(request.duration, DisplayLabels))
    => \A i \in DOMAIN response.activities :
          response.activities[i].duration = request.duration

-----------------------------------------------------------------------------
(* Claims about the response envelope *)

\* C13 (as claimed): every response of an endpoint, the collection
\* endpoints on every batch outcome included, is an object with a boolean
\* field "success"; a failure response has success false and an "error".
C13_ResponseEnvelope ==
    response # NoResponse
    => /\ "success" \in DOMAIN response
       /\ response.success \in BOOLEAN
       /\ response.success = FALSE => "error" \in DOMAIN response

-----------------------------------------------------------------------------
(* Claims about the stored rows *)

CostCategories == {"free", "low", "medium", "high", "unknown"}

\* C14 (as claimed): in every store state the cost_category of every
\* activities row is one of free, low, medium, high and unknown, whatever
\* price level, types and name the saved place had.
C14_CostCategoryEnum ==
    \A i \in DOMAIN activities : activities[i].cost_category \in CostCategories

-----------------------------------------------------------------------------
(* Claims about the classifier, the description and the duration rules *)

ActivityTypes == {"outdoor", "educational", "recreational", "dining"}

\* No rule of the collector's determine_activity_type matches the place.
NoClassifierRuleMatches ==
    IF fn.op = "enhance_place_with_duration"
    THEN ~AnyIn({"museum", "library", "university", "school", "park", "campground",
                 "restaurant", "food", "meal_takeaway", "amusement_park",
                 "bowling_alley", "movie_theater"}, fn.place.types)
    ELSE /\ ~AnyIn({"museum", "library", "park", "playground", "aquarium", "zoo"},
                   fn.place.types)
         /\ ~ContainsAny(Lower(GetName(fn.place, "Unknown Place")),
                         {"park", "amusement", "fun"})

\* C15: for every types list and every name, determine_activity_type of
\* the multi-city and of the simple collector returns, without an error,
\* one of outdoor, educational, recreational and dining, and recreational
\* when none of its rules matches.
C15_ClassifierTotal ==
    (/\ fn.op \in {"enhance_place_with_duration", "enhance_place_data"}
     /\ fn.place.name_key # "null")
    => /\ ~fn.result.is_none
       /\ fn.result.activity_type \in ActivityTypes
       /\ NoClassifierRuleMatches => fn.result.activity_type = "recreational"

\* C15 witness: the multi-city classifier fell back to recreational for a
\* place without types whose name matches no rule.
C15_Witness ==
    /\ fn.op = "enhance_place_with_duration"
    /\ fn.place.types = <<>>
    /\ fn.place.name = "Acme"
    /\ NoClassifierRuleMatches
    /\ fn.result.activity_type = "recreational"

-----------------------------------------------------------------------------
(* Claims about the junction tables and the tags table *)

Committed == lastOp.op \in SaveOps /\ lastOp.saved

\* The names of the tags the junction rows link to the activity.
LinkedTagNames(activity_id) ==
    {tags[t].name : t \in {k \in DOMAIN tags :
        \E i \in DOMAIN activity_tags :
            /\ activity_tags[i].activity_id = activity_id
            /\ activity_tags[i].tag_id = tags[k].id}}

\* C16: no two activity_venues rows share (activity_id, venue_id) and no
\* two activity_tags rows share (activity_id, tag_id); a save whose tag list
\* names a tag twice commits all the same: its activity is stored with one
\* venue link and one tag link for each distinct tag of the list.
C16_JunctionPairsUnique ==
    /\ \A i, j \in DOMAIN activity_venues :
          (/\ activity_venues[i].activity_id = activity_venues[j].activity_id
           /\ activity_venues[i].venue_id = activity_venues[j].venue_id) => i = j
    /\ \A i, j \in DOMAIN activity_tags :
          (/\ activity_tags[i].activity_id = activity_tags[j].activity_id
           /\ activity_tags[i].tag_id = activity_tags[j].tag_id) => i = j
    /\ Committed =>
          /\ \E i \in DOMAIN activities : activities[i].id = lastOp.activity_id
          /\ Cardinality({i \in DOMAIN activity_venues :
                             activity_venues[i].activity_id = lastOp.activity_id}) = 1
          /\ LinkedTagNames(lastOp.activity_id) = Range(lastOp.tag_list)
          /\ Cardinality({i \in DOMAIN activity_tags :
                             activity_tags[i].activity_id = lastOp.activity_id})
             = Cardinality(Range(lastOp.tag_list))

\* C16 witness: a save whose tag list names "outdoor" twice committed, and
\* its activity has two tag links.
C16_Witness ==
    /\ Committed
    /\ lastOp.tag_list = <<"outdoor", "outdoor", "family_friendly">>
    /\ \E i \in DOMAIN activities : activities[i].id = lastOp.activity_id
    /\ Cardinality({i \in DOMAIN activity_tags :
                       activity_tags[i].activity_id = lastOp.activity_id}) = 2

\* C17: no two tags rows have the same name, there is one tags row for each
\* distinct tag name the seed and the committed saves have named, and a
\* committed save leaves the tags rows it found as they were and links its
\* activity to the found row of each tag name that existed already.
C17_TagGetOrCreate ==
    /\ \A i, j \in DOMAIN tags : tags[i].name = tags[j].name => i = j
    /\ Len(tags) = Cardinality(lastOp.tag_names)
    /\ {tags[i].name : i \in DOMAIN tags} = lastOp.tag_names
    /\ Committed =>
          /\ Len(lastOp.tags_before) <= Len(tags)
          /\ \A i \in DOMAIN lastOp.tags_before : tags[i] = lastOp.tags_before[i]
          /\ \A i \in DOMAIN lastOp.tags_before :
                lastOp.tags_before[i].name \in Range(lastOp.tag_list)
                => \E k \in DOMAIN activity_tags :
                      /\ activity_tags[k].activity_id = lastOp.activity_id
                      /\ activity_tags[k].tag_id = lastOp.tags_before[i].id

\* C17 witness: a committed save named the seeded tags "outdoor" and
\* "family_friendly"; no tags row was added and its activity is linked to
\* the seeded "outdoor" row.
C17_Witness ==
    /\ Committed
    /\ lastOp.tag_list = <<"outdoor", "family_friendly">>
    /\ tags = lastOp.tags_before
    /\ \E t \in DOMAIN tags, k \in DOMAIN activity_tags :
          /\ tags[t].name = "outdoor"
          /\ activity_tags[k].activity_id = lastOp.activity_id
          /\ activity_tags[k].tag_id = tags[t].id

C19_DescriptionNonEmpty ==
    (EnrichDone /\ ~fn.result.is_none)
    => /\ fn.result.description # ""
       /\ fn.op = "enhance_place_data"
             => Simple_generate_description(fn.result.name, fn.place.types) # ""

\* C19 witness: a place with an empty name, no types, no editorial summary
\* and no rating got the last-resort description of the enhanced collector.
C19_Witness ==
    /\ fn.op = "process_enhanced_place"
    /\ fn.place.name_key = "str"
    /\ fn.place.name = ""
    /\ fn.place.types = <<>>
    /\ fn.place.editorial_summary = ""
    /\ fn.place.rating = NULL
    /\ fn.result.description = "Family-friendly destination at ."

\* The place is an all-day destination: an amusement park or a campground
\* by type, or a park by type whose name has a size word.
AllDayDestination(place) ==
    \/ AnyIn({"amusement_park", "campground"}, place.types)
    \/ /\ InList("park", place.types)
       /\ ContainsAny(Lower(GetName(place, "Unknown Place")),
                      {"regional", "state", "national", "large"})

\* C20 (as claimed): for every all-day destination calculate_smart_duration
\* returns 300 minutes, whatever else the name contains.
C20_AllDayDestinationIsLong ==
    (/\ fn.op = "enhance_place_with_duration"
     /\ ~fn.result.is_none
     /\ AllDayDestination(fn.place))
    => fn.result.duration_minutes = 300

-----------------------------------------------------------------------------
(* Claims about the classifier's fallback *)

\* None of the place's types is in the category list of the collector's
\* determine_activity_type.
NoCategoryMatches ==
    IF fn.op = "enhance_place_with_duration"
    THEN ~AnyIn({"museum", "library", "university", "school", "park", "campground",
                 "restaurant", "food", "meal_takeaway", "amusement_park",
                 "bowling_alley", "movie_theater"}, fn.place.types)
    ELSE ~AnyIn({"museum", "library", "park", "playground", "aquarium", "zoo"},
                fn.place.types)

\* C21 (as claimed): for a raw place none of whose types matches the
\* classifier's category list, determine_activity_type goes by the
\* lowercased name: a name containing "park" gives outdoor.
C21_ClassifierNameFallback ==
    (/\ fn.op \in {"enhance_place_with_duration", "enhance_place_data"}
     /\ ~fn.result.is_none
     /\ NoCategoryMatches
     /\ Contains(Lower(fn.result.name), "park"))
    => fn.result.activity_type = "outdoor"

-----------------------------------------------------------------------------
(* Claims about the provider calls *)

\* C22 (as claimed): between any two successive HTTP calls of a collection
\* batch the fixed delay is executed at least once: at no point have two
\* calls been made since the last time.sleep.
C22_SleepBetweenCalls ==
    BatchRunning => batch.unslept <= 1

-----------------------------------------------------------------------------
(* Claims about the pagination *)

\* Every continuation-page fetch came after the token delay and carried
\* the token of the response before it; after a response without a token
\* nothing is fetched; and a call that ended without an exception ended on
\* a response without a token.
PaginationSafe ==
    /\ lastOp.op = "next_page" =>
          /\ lastOp.slept
          /\ lastOp.previous.kind = "body"
          /\ lastOp.previous.next_page_token # 0
          /\ lastOp.pagetoken = lastOp.previous.next_page_token
    /\ (batch.data.kind = "body" /\ batch.data.next_page_token = 0)
          => batch.pc \in {"while", "done"}
    /\ (batch.pc = "done" /\ ~batch.raised /\ ~batch.no_coords)
          => (batch.data.kind = "body" /\ batch.data.next_page_token = 0)
    /\ batch.fetched <= MaxTokens + 1

\* C23: in search_places_by_type every continuation-page fetch is preceded
\* by the token delay and uses the token of the response before it, the
\* loop ends at the first response without a token, and the search ends
\* when the provider hands out finitely many tokens.
C23_PaginationTerminates ==
    []PaginationSafe /\ <>(batch.pc = "done")

\* C23 witness: the search ended after its first page and every
\* continuation page the provider had a token for.
C23_Witness ==
    /\ batch.pc = "done"
    /\ ~batch.raised
    /\ batch.fetched >= 3
    /\ batch.pagetoken = batch.fetched - 1
    /\ batch.data.next_page_token = 0

-----------------------------------------------------------------------------
(* Claims about the schema reconciliation *)

NewColumns == {new_columns[i] : i \in DOMAIN new_columns}

-----------------------------------------------------------------------------
(* Claims about the rows the seed and the save functions leave             *)

\* The activity_venues rows of an activity, and of a venue.
LinksOfActivity(activity_id) ==
    {j \in DOMAIN activity_venues : activity_venues[j].activity_id = activity_id}

LinksOfVenue(venue_id) ==
    {j \in DOMAIN activity_venues : activity_venues[j].venue_id = venue_id}

\* C25: after any sequence of seed and save operations every activities row
\* is linked through activity_venues to exactly one venues row, and every
\* venues row to exactly one activities row.
C25_OneToOneLinks ==
    /\ \A i \in DOMAIN activities :
         /\ Cardinality(LinksOfActivity(activities[i].id)) = 1
         /\ \A j \in LinksOfActivity(activities[i].id) :
              Cardinality({k \in DOMAIN venues :
                             venues[k].id = activity_venues[j].venue_id}) = 1
    /\ \A k \in DOMAIN venues :
         /\ Cardinality(LinksOfVenue(venues[k].id)) = 1
         /\ \A j \in LinksOfVenue(venues[k].id) :
              Cardinality({i \in DOMAIN activities :
                             activities[i].id = activity_venues[j].activity_id}) = 1

\* The same place saved twice on top of the seed: two committed saves, two
\* activities with one title, two venues with one name.
C25_Witness ==
    /\ Committed
    /\ lastOp.steps = 2
    /\ Len(activities) = Len(sample_activities) + 2
    /\ Len(venues) = Len(sample_activities) + 2
    /\ activities[Len(activities)].title = activities[Len(activities) - 1].title
    /\ venues[Len(venues)].name = venues[Len(venues) - 1].name


\* The ids of the activities rows in a table.
ActivityIds(table) == {table[i].id : i \in DOMAIN table}

\* C26: no operation removes an existing activities row or changes its id:
\* across every step the set of activity ids only grows, and no id is held
\* by more rows than before.
C26_ActivitiesNeverDeleted ==
    [][/\ ActivityIds(activities) \subseteq ActivityIds(activities')
       /\ Len(activities) <= Len(activities')
       /\ \A i \in DOMAIN activities : activities'[i].id = activities[i].id]_vars

\* A committed INSERT OR REPLACE of a title the table already holds: the
\* earlier row is still there under its own id, beside the new one.
C26_Witness ==
    /\ Committed
    /\ \E i \in DOMAIN activities :
         /\ activities[i].id < lastOp.activity_id
         /\ activities[i].id > Len(sample_activities)
         /\ activities[i].title = activities[Len(activities)].title
    /\ activities[Len(activities)].id = lastOp.activity_id
    /\ \A n \in 1..Len(sample_activities) : n \in ActivityIds(activities)


\* How many activities rows of db carry the title.
TitleCount(db, title) ==
    Cardinality({i \in DOMAIN db.activities : db.activities[i].title = title})

\* Two stores hold the same activities, row ids aside.
SameActivities(db1, db2) ==
    /\ Len(db1.activities) = Len(db2.activities)
    /\ \A i \in DOMAIN db1.activities :
         TitleCount(db1, db1.activities[i].title)
             = TitleCount(db2, db1.activities[i].title)

\* C27: when two multi-city batches interleave over overlapping provider
\* results, the store they leave holds the activities that running the two
\* batches one after the other leaves.
C27_InterleavingEqualsSequential ==
    (batch.pc = "race" /\ batch.at = <<"done", "done">>) =>
        \/ SameActivities(Db, RunBatch(RunBatch(batch.seed, batch.places[1], batch.city),
                                       batch.places[2], batch.city))
        \/ SameActivities(Db, RunBatch(RunBatch(batch.seed, batch.places[2], batch.city),
                                       batch.places[1], batch.city))


\* The activities rows of db that have no activity_venues row.
Unlinked(db) ==
    {i \in DOMAIN db.activities :
        \A j \in DOMAIN db.activity_venues :
            db.activity_venues[j].activity_id # db.activities[i].id}

\* C28: a save either commits the activity row, its venue row, their
\* junction row and all its tag links together, or, when a statement in it
\* fails, leaves the five tables exactly as they were before the save; no
\* state holds an activity without its venue link.
C28_SaveIsAtomic ==
    /\ Unlinked(Db) = {}
    /\ lastOp.op \in SaveOps =>
         IF lastOp.saved
         THEN /\ Db = lastOp.whole
              /\ Len(activities) = Len(lastOp.before.activities) + 1
              /\ Len(venues) = Len(lastOp.before.venues) + 1
              /\ Len(activity_venues) = Len(lastOp.before.activity_venues) + 1
              /\ activities[Len(activities)].id = lastOp.activity_id
              /\ activity_venues[Len(activity_venues)].activity_id = lastOp.activity_id
              /\ activity_venues[Len(activity_venues)].venue_id = venues[Len(venues)].id
              /\ LinkedTagNames(lastOp.activity_id) = Range(lastOp.tag_list)
         ELSE Db = lastOp.before

\* A save whose statement after the first raised: the transaction's copy
\* held the new activity without a venue link, and the tables are those
\* before the save.
C28_Witness ==
    /\ lastOp.op \in SaveOps
    /\ ~lastOp.saved
    /\ lastOp.fail_at \in {2, 3}
    /\ Unlinked(lastOp.work) # {}
    /\ lastOp.work # lastOp.before
    /\ Db = lastOp.before


-----------------------------------------------------------------------------
(* Claims about whole batches                                              *)

\* C29: the summary count a collection batch returns equals the number of
\* activities rows the batch added to the store.
C29_SummaryCountsPersisted ==
    (batch.pc = "done" /\ response.status = 200) =>
        response.total_collected = Len(activities) - Len(sample_activities)


\* No two activities rows have the same title.
TitlesDistinct ==
    \A i, j \in DOMAIN activities :
        activities[i].title = activities[j].title => i = j

\* C30: a batch run a second time against the same provider results adds
\* no activities row, and after any number of batches run one after the
\* other no two activities rows have the same title.
C30_RerunAddsNothing ==
    batch.pc = "rerun" =>
        /\ TitlesDistinct
        /\ (lastOp.op = "batch" /\ lastOp.previous = lastOp.collector) =>
               lastOp.added = 0

=============================================================================
